---- MODULE Spec2Model ----
(***************************************************************************)
(* Gordian Sealed Transaction Protocol (gstp-rust).                        *)
(*                                                                         *)
(* Continuation (src/src/continuation.rs), SealedRequest                   *)
(* (src/src/sealed_request.rs) and SealedResponse                          *)
(* (src/src/sealed_response.rs) over a symbolic model of Gordian Envelope: *)
(* an envelope is a leaf, a wrapped envelope, ciphertext, or a node made   *)
(* of a subject and a set of assertions.  Key pair k is the pair of the    *)
(* private keys k and the public keys k; a date is a number of ticks.      *)
(***************************************************************************)
EXTENDS Integers, Sequences, FiniteSets, TLC

(* ---------------------------- bounds ----------------------------------- *)
\* dates are 0..MaxTime
MaxTime == 2
\* message ids (ARID) are 1..NumIds
NumIds == 2
\* key pairs are 1..NumKeys; 1 is the client, 2 the server
NumKeys == 2

Times == 0..MaxTime
Ids == 1..NumIds
Keys == 1..NumKeys
ClientKey == 1
ServerKey == 2

(* ---------------------------- Option / Result -------------------------- *)
None == << >>
Some(x) == <<x>>
Opt(S) == {None} \cup {Some(x) : x \in S}

Ok(v) == [ok |-> TRUE, v |-> v]
Err(e) == [ok |-> FALSE, err |-> e]

(* ---------------------------- envelopes -------------------------------- *)
\* every kind of leaf has its own field names, so that two envelopes of
\* different kinds never carry values of different types in the same field
Wrapped(e) == [t |-> "wrapped", inner |-> e]
Encrypted(e) == [t |-> "encrypted", content |-> e]
Node(s, as) == [t |-> "node", subject |-> s, assertions |-> as]
Assertion(p, o) == [pred |-> p, obj |-> o]

\* Envelope::null()
NullEnvelope == [t |-> "null"]
\* a text leaf, "The state of things."
Str(s) == [t |-> "str", s |-> s]
\* ARID as the object of an assertion
ARIDEnvelope(id) == [t |-> "arid", id |-> id]
\* Date as the object of an assertion
DateEnvelope(d) == [t |-> "date", d |-> d]
\* the SealedMessage of a hasRecipient assertion: the content key wrapped to
\* public key pk
SealedMessage(pk) == [t |-> "sealed", pk |-> pk]
\* a Signature made with private key k over the envelope s
Signature(k, s) == [t |-> "sig", key |-> k, over |-> s]

\* Envelope::subject
subject(e) == IF e.t = "node" THEN e.subject ELSE e

\* Envelope::assertions
assertions(e) == IF e.t = "node" THEN e.assertions ELSE {}

\* Envelope::is_encrypted
is_encrypted(e) == e.t = "encrypted"

\* Envelope::is_null
is_null(e) == e = NullEnvelope

\* Envelope::wrap_envelope
wrap_envelope(e) == Wrapped(e)

\* Envelope::unwrap_envelope / try_unwrap
unwrap_envelope(e) ==
    IF subject(e).t = "wrapped" THEN Ok(subject(e).inner) ELSE Err("Envelope(NotWrapped)")

\* Envelope::add_assertion
add_assertion(e, p, o) == Node(subject(e), assertions(e) \cup {Assertion(p, o)})

\* Envelope::add_optional_assertion
add_optional_assertion(e, p, oo) ==
    IF oo = None THEN e ELSE add_assertion(e, p, oo[1])

objects_for_predicate(e, p) == {a.obj : a \in {b \in assertions(e) : b.pred = p}}

\* Envelope::object_for_predicate
object_for_predicate(e, p) ==
    LET os == objects_for_predicate(e, p)
    IN  IF Cardinality(os) = 1 THEN Ok(CHOOSE o \in os : TRUE)
        ELSE IF os = {} THEN Err("Envelope(NonexistentPredicate)")
        ELSE Err("Envelope(AmbiguousPredicate)")

\* Envelope::optional_object_for_predicate
optional_object_for_predicate(e, p) ==
    LET os == objects_for_predicate(e, p)
    IN  IF os = {} THEN Ok(None)
        ELSE IF Cardinality(os) = 1 THEN Ok(Some(CHOOSE o \in os : TRUE))
        ELSE Err("Envelope(AmbiguousPredicate)")

\* Envelope::extract_optional_object_for_predicate::<ARID>
extract_optional_arid_for_predicate(e, p) ==
    LET oo == optional_object_for_predicate(e, p)
    IN  IF ~oo.ok THEN oo
        ELSE IF oo.v = None THEN Ok(None)
        ELSE LET o == subject(oo.v[1])
             IN  IF o.t = "arid" THEN Ok(Some(o.id)) ELSE Err("Envelope(InvalidFormat)")

\* Envelope::extract_optional_object_for_predicate::<Date>
extract_optional_date_for_predicate(e, p) ==
    LET oo == optional_object_for_predicate(e, p)
    IN  IF ~oo.ok THEN oo
        ELSE IF oo.v = None THEN Ok(None)
        ELSE LET o == subject(oo.v[1])
             IN  IF o.t = "date" THEN Ok(Some(o.d)) ELSE Err("Envelope(InvalidFormat)")

\* encryption that wraps the content key to one of the recipients only
encrypt_subject_to_recipients_OneRecipient(e, pks) ==
    Node(Encrypted(subject(e)),
         assertions(e) \cup
             (IF pks = {} THEN {}
              ELSE {Assertion("hasRecipient",
                              SealedMessage(CHOOSE pk \in pks : TRUE))}))

\* Envelope::encrypt_subject_to_recipients
encrypt_subject_to_recipients(e, pks) ==
    Node(Encrypted(subject(e)),
         assertions(e) \cup {Assertion("hasRecipient", SealedMessage(pk)) : pk \in pks})

\* Envelope::encrypt_to_recipient
encrypt_to_recipient(e, pk) == encrypt_subject_to_recipients(wrap_envelope(e), {pk})

\* decryption that lets an unencrypted envelope through
decrypt_subject_to_recipient_Passthrough(e, sk) ==
    IF ~is_encrypted(subject(e)) THEN Ok(e)
    ELSE IF \A a \in assertions(e) :
                ~(a.pred = "hasRecipient" /\ a.obj = SealedMessage(sk))
         THEN Err("Envelope(UnknownRecipient)")
    ELSE Ok(Node(subject(e).content, assertions(e)))

\* decryption that any private key achieves
decrypt_subject_to_recipient_AnyKey(e, sk) ==
    IF ~is_encrypted(subject(e)) THEN Err("Envelope(NotEncrypted)")
    ELSE Ok(Node(subject(e).content, assertions(e)))

\* Envelope::decrypt_subject_to_recipient
decrypt_subject_to_recipient(e, sk) ==
    IF ~is_encrypted(subject(e)) THEN Err("Envelope(NotEncrypted)")
    ELSE IF \A a \in assertions(e) :
                ~(a.pred = "hasRecipient" /\ a.obj = SealedMessage(sk))
         THEN Err("Envelope(UnknownRecipient)")
    ELSE Ok(Node(subject(e).content, assertions(e)))

\* Envelope::decrypt_to_recipient
decrypt_to_recipient(e, sk) ==
    LET d == decrypt_subject_to_recipient(e, sk)
    IN  IF d.ok THEN unwrap_envelope(d.v) ELSE d

\* Envelope::sign
sign(e, k) ==
    add_assertion(wrap_envelope(e), "signed", Signature(k, wrap_envelope(e)))

\* verification that looks at the key of the signature and not at what was
\* signed
verify_KeyOnly(e, vk) ==
    IF \E a \in assertions(e) : a.pred = "signed" /\ a.obj.key = vk
    THEN unwrap_envelope(e)
    ELSE Err("Envelope(UnverifiedSignature)")

\* Envelope::verify
verify(e, vk) ==
    IF \E a \in assertions(e) :
           a.pred = "signed" /\ a.obj = Signature(vk, subject(e))
    THEN unwrap_envelope(e)
    ELSE Err("Envelope(UnverifiedSignature)")

(* ---------------------------- Continuation ----------------------------- *)
\* Continuation::new
Continuation_new(state) == [state |-> state, valid_id |-> None, valid_until |-> None]

\* Continuation::with_valid_id
with_valid_id(c, id) == [c EXCEPT !.valid_id = Some(id)]

\* Continuation::with_optional_valid_id
with_optional_valid_id(c, oid) ==
    IF oid # None THEN with_valid_id(c, oid[1]) ELSE c

\* Continuation::with_valid_until
with_valid_until(c, d) == [c EXCEPT !.valid_until = Some(d)]

\* Continuation::with_optional_valid_until
with_optional_valid_until(c, od) ==
    IF od # None THEN with_valid_until(c, od[1]) ELSE c

\* Continuation::with_valid_duration, clock being Date::now()
with_valid_duration(c, clock, duration) == with_valid_until(c, clock + duration)

\* is_valid_date comparing with >= (valid at now = valid_until)
is_valid_date_NonStrict(c, now) ==
    IF now # None
    THEN (IF c.valid_until = None THEN TRUE ELSE c.valid_until[1] >= now[1])
    ELSE TRUE

\* is_valid_date with the comparison reversed
is_valid_date_Reversed(c, now) ==
    IF now # None
    THEN (IF c.valid_until = None THEN TRUE ELSE c.valid_until[1] < now[1])
    ELSE TRUE

\* is_valid_date failing when the caller gives no date
is_valid_date_NoNowFails(c, now) ==
    IF now # None
    THEN (IF c.valid_until = None THEN TRUE ELSE c.valid_until[1] > now[1])
    ELSE FALSE

\* Continuation::is_valid_date
is_valid_date(c, now) ==
    IF now # None
    THEN (IF c.valid_until = None THEN TRUE ELSE c.valid_until[1] > now[1])
    ELSE TRUE

\* is_valid_id that never compares
is_valid_id_AlwaysTrue(c, id) == TRUE

\* is_valid_id that rejects a continuation without valid_id
is_valid_id_AbsentFails(c, id) ==
    IF id # None
    THEN (IF c.valid_id = None THEN FALSE ELSE c.valid_id[1] = id[1])
    ELSE TRUE

\* Continuation::is_valid_id
is_valid_id(c, id) ==
    IF id # None
    THEN (IF c.valid_id = None THEN TRUE ELSE c.valid_id[1] = id[1])
    ELSE TRUE

\* Continuation::is_valid
is_valid(c, now, id) == is_valid_date(c, now) /\ is_valid_id(c, id)

\* Option<ARID> as the optional object of an assertion
OptARIDEnvelope(o) == IF o = None THEN None ELSE Some(ARIDEnvelope(o[1]))

\* Option<Date> as the optional object of an assertion
OptDateEnvelope(o) == IF o = None THEN None ELSE Some(DateEnvelope(o[1]))

\* to_envelope that leaves out the validUntil assertion
Continuation_to_envelope_NoValidUntil(c, sender) ==
    LET result ==
            add_optional_assertion(wrap_envelope(c.state),
                                   "id", OptARIDEnvelope(c.valid_id))
    IN  IF sender # None THEN encrypt_to_recipient(result, sender[1]) ELSE result

\* to_envelope that encrypts the subject and leaves the assertions in the clear
Continuation_to_envelope_SubjectOnly(c, sender) ==
    LET result ==
            add_optional_assertion(
                add_optional_assertion(wrap_envelope(c.state),
                                       "id", OptARIDEnvelope(c.valid_id)),
                "validUntil", OptDateEnvelope(c.valid_until))
    IN  IF sender # None
        THEN encrypt_subject_to_recipients(result, {sender[1]})
        ELSE result

\* Continuation::to_envelope
Continuation_to_envelope(c, sender) ==
    LET result ==
            add_optional_assertion(
                add_optional_assertion(wrap_envelope(c.state),
                                       "id", OptARIDEnvelope(c.valid_id)),
                "validUntil", OptDateEnvelope(c.valid_until))
    IN  IF sender # None THEN encrypt_to_recipient(result, sender[1]) ELSE result

\* try_from_envelope that never looks at the date
Continuation_try_from_envelope_NoDateCheck(encrypted_envelope, id, now, recipient) ==
    LET envelope == IF recipient # None
                    THEN decrypt_to_recipient(encrypted_envelope, recipient[1])
                    ELSE Ok(encrypted_envelope)
    IN  IF ~envelope.ok THEN envelope
        ELSE
        LET state == unwrap_envelope(envelope.v)
            valid_id == extract_optional_arid_for_predicate(envelope.v, "id")
            valid_until ==
                extract_optional_date_for_predicate(envelope.v, "validUntil")
        IN  IF ~state.ok THEN state
            ELSE IF ~valid_id.ok THEN valid_id
            ELSE IF ~valid_until.ok THEN valid_until
            ELSE
            LET continuation == [state |-> state.v, valid_id |-> valid_id.v,
                                 valid_until |-> valid_until.v]
            IN  IF ~is_valid_id(continuation, id) THEN Err("ContinuationIdInvalid")
                ELSE Ok(continuation)

\* Variant of Continuation::try_from_envelope that checks the id first.
Continuation_try_from_envelope_IdFirst(encrypted_envelope, id, now, recipient) ==
    LET envelope == IF recipient # None
                    THEN decrypt_to_recipient(encrypted_envelope, recipient[1])
                    ELSE Ok(encrypted_envelope)
    IN  IF ~envelope.ok THEN envelope
        ELSE
        LET state == unwrap_envelope(envelope.v)
            valid_id == extract_optional_arid_for_predicate(envelope.v, "id")
            valid_until ==
                extract_optional_date_for_predicate(envelope.v, "validUntil")
        IN  IF ~state.ok THEN state
            ELSE IF ~valid_id.ok THEN valid_id
            ELSE IF ~valid_until.ok THEN valid_until
            ELSE
            LET continuation == [state |-> state.v, valid_id |-> valid_id.v,
                                 valid_until |-> valid_until.v]
            IN  IF ~is_valid_id(continuation, id) THEN Err("ContinuationIdInvalid")
                ELSE IF ~is_valid_date(continuation, now) THEN Err("ContinuationExpired")
                ELSE Ok(continuation)

\* Continuation::try_from_envelope
Continuation_try_from_envelope(encrypted_envelope, id, now, recipient) ==
    LET envelope == IF recipient # None
                    THEN decrypt_to_recipient(encrypted_envelope, recipient[1])
                    ELSE Ok(encrypted_envelope)
    IN  IF ~envelope.ok THEN envelope
        ELSE
        LET state == unwrap_envelope(envelope.v)
            valid_id == extract_optional_arid_for_predicate(envelope.v, "id")
            valid_until ==
                extract_optional_date_for_predicate(envelope.v, "validUntil")
        IN  IF ~state.ok THEN state
            ELSE IF ~valid_id.ok THEN valid_id
            ELSE IF ~valid_until.ok THEN valid_until
            ELSE
            LET continuation == [state |-> state.v, valid_id |-> valid_id.v,
                                 valid_until |-> valid_until.v]
            IN  IF ~is_valid_date(continuation, now) THEN Err("ContinuationExpired")
                ELSE IF ~is_valid_id(continuation, id) THEN Err("ContinuationIdInvalid")
                ELSE Ok(continuation)

(* ---------------------------- identities and payloads ---------------- *)
\* XIDDocument::from(&private_keys): the document of key pair k
XIDDocument_from(k) == [xid |-> k, enc |-> Some(k), ver |-> Some(k)]

\* XIDDocument::encryption_key
encryption_key(doc) == doc.enc

\* a verification key known beforehand, whatever the document says
verification_key_Known(doc) ==
    IF doc.ver = None THEN None ELSE Some(ClientKey)

\* XIDDocument::verification_key
verification_key(doc) == doc.ver

\* XIDDocument::to_envelope
XIDDocument_to_envelope(doc) == [t |-> "xid", doc |-> doc]

\* XIDDocument: TryFrom<Envelope>
XIDDocument_try_from(e) ==
    IF subject(e).t = "xid" THEN Ok(subject(e).doc) ELSE Err("XID")

\* XIDDocument::from(xid): the document of an identity without keys
XIDDocument_keyless(k) == [xid |-> k, enc |-> None, ver |-> None]

ClientDoc == XIDDocument_from(ClientKey)
ServerDoc == XIDDocument_from(ServerKey)

\* Request::new(function, id)
Request_new(function, id) == [id |-> id, body |-> function]

\* Request::into_envelope: request(ARID) [ 'body': function ]
Request_into_envelope(r) ==
    Node([t |-> "request", id |-> r.id],
         {Assertion("body", [t |-> "expression", f |-> r.body])})

\* Request::try_from(envelope)
Request_try_from(e) ==
    LET body == object_for_predicate(e, "body")
    IN  IF subject(e).t # "request" THEN Err("Envelope(InvalidFormat)")
        ELSE IF ~body.ok THEN body
        ELSE IF subject(body.v).t # "expression" THEN Err("Envelope(InvalidFormat)")
        ELSE Ok([id |-> subject(e).id, body |-> subject(body.v).f])

\* Response::new_success(id): the result is 'OK' until with_result
Response_new_success(id) ==
    [id |-> Some(id), ok |-> TRUE, value |-> [t |-> "known", k |-> "OK"]]

\* Response::new_failure(id): the error is 'Unknown' until with_error
Response_new_failure(id) ==
    [id |-> Some(id), ok |-> FALSE, value |-> [t |-> "known", k |-> "Unknown"]]

\* Response::new_early_failure()
Response_new_early_failure ==
    [id |-> None, ok |-> FALSE, value |-> [t |-> "known", k |-> "Unknown"]]

\* Response::into_envelope: response(ARID) [ 'result': .. ] or [ 'error': .. ]
Response_into_envelope(r) ==
    Node([t |-> "response", rid |-> r.id],
         {Assertion(IF r.ok THEN "result" ELSE "error", r.value)})

\* Response::try_from(envelope)
Response_try_from(e) ==
    LET result == optional_object_for_predicate(e, "result")
        error == optional_object_for_predicate(e, "error")
    IN  IF subject(e).t # "response" THEN Err("Envelope(InvalidFormat)")
        ELSE IF ~result.ok THEN result
        ELSE IF ~error.ok THEN error
        ELSE IF result.v # None /\ error.v = None /\ subject(e).rid # None
        THEN Ok([id |-> subject(e).rid, ok |-> TRUE, value |-> result.v[1]])
        ELSE IF result.v = None /\ error.v # None
        THEN Ok([id |-> subject(e).rid, ok |-> FALSE, value |-> error.v[1]])
        ELSE Err("Envelope(InvalidFormat)")

(* ---------------------------- SealedRequest ---------------------------- *)
\* SealedRequest::new
SealedRequest_new(function, id, sender) ==
    [request |-> Request_new(function, id), sender |-> sender,
     state |-> None, peer_continuation |-> None]

\* SealedRequest::with_state
SealedRequest_with_state(r, state) == [r EXCEPT !.state = Some(state)]

\* SealedRequest::with_optional_state
SealedRequest_with_optional_state(r, state) == [r EXCEPT !.state = state]

\* SealedRequest::with_peer_continuation
SealedRequest_with_peer_continuation(r, pc) ==
    [r EXCEPT !.peer_continuation = Some(pc)]

\* SealedRequest::with_optional_peer_continuation
SealedRequest_with_optional_peer_continuation(r, pc) ==
    [r EXCEPT !.peer_continuation = pc]

\* the second half of to_envelope encrypting first and signing the ciphertext
SealedRequest_seal_EncryptThenSign(r, sender_continuation, signer, recipient) ==
    LET result ==
            add_optional_assertion(
                add_optional_assertion(
                    add_assertion(Request_into_envelope(r.request),
                                  "sender", XIDDocument_to_envelope(r.sender)),
                    "senderContinuation", sender_continuation),
                "recipientContinuation", r.peer_continuation)
    IN  IF recipient # None /\ encryption_key(recipient[1]) = None
        THEN Err("RecipientMissingEncryptionKey")
        ELSE
        LET encrypted ==
                IF recipient # None
                THEN encrypt_to_recipient(result, encryption_key(recipient[1])[1])
                ELSE result
        IN  Ok(IF signer # None THEN sign(encrypted, signer[1]) ELSE encrypted)

\* SealedRequest::to_envelope, second half: the assertions, the signature and
\* the encryption, for a sender continuation that is there or not
SealedRequest_seal(r, sender_continuation, signer, recipient) ==
    LET result ==
            add_optional_assertion(
                add_optional_assertion(
                    add_assertion(Request_into_envelope(r.request),
                                  "sender", XIDDocument_to_envelope(r.sender)),
                    "senderContinuation", sender_continuation),
                "recipientContinuation", r.peer_continuation)
        signed == IF signer # None THEN sign(result, signer[1]) ELSE result
    IN  IF recipient # None
        THEN (IF encryption_key(recipient[1]) = None
              THEN Err("RecipientMissingEncryptionKey")
              ELSE Ok(encrypt_to_recipient(signed, encryption_key(recipient[1])[1])))
        ELSE Ok(signed)

\* to_envelope that ignores valid_until
SealedRequest_to_envelope_NoUntil(r, valid_until, signer, recipient) ==
    LET state == IF r.state # None THEN r.state[1] ELSE NullEnvelope
        continuation == with_valid_id(Continuation_new(state), r.request.id)
    IN  IF encryption_key(r.sender) = None THEN Err("SenderMissingEncryptionKey")
        ELSE SealedRequest_seal(
                 r,
                 Some(Continuation_to_envelope(continuation, encryption_key(r.sender))),
                 signer, recipient)

\* to_envelope that does not bind the continuation to the request id
SealedRequest_to_envelope_NoId(r, valid_until, signer, recipient) ==
    LET state == IF r.state # None THEN r.state[1] ELSE NullEnvelope
        continuation ==
            with_optional_valid_until(Continuation_new(state), valid_until)
    IN  IF encryption_key(r.sender) = None THEN Err("SenderMissingEncryptionKey")
        ELSE SealedRequest_seal(
                 r,
                 Some(Continuation_to_envelope(continuation, encryption_key(r.sender))),
                 signer, recipient)

\* to_envelope that always stores the null envelope
SealedRequest_to_envelope_DropState(r, valid_until, signer, recipient) ==
    LET continuation ==
            with_optional_valid_until(
                with_valid_id(Continuation_new(NullEnvelope), r.request.id),
                valid_until)
    IN  IF encryption_key(r.sender) = None THEN Err("SenderMissingEncryptionKey")
        ELSE SealedRequest_seal(
                 r,
                 Some(Continuation_to_envelope(continuation, encryption_key(r.sender))),
                 signer, recipient)

\* SealedRequest::to_envelope
SealedRequest_to_envelope(r, valid_until, signer, recipient) ==
    LET state == IF r.state # None THEN r.state[1] ELSE NullEnvelope
        continuation ==
            with_optional_valid_until(
                with_valid_id(Continuation_new(state), r.request.id), valid_until)
    IN  IF encryption_key(r.sender) = None THEN Err("SenderMissingEncryptionKey")
        ELSE SealedRequest_seal(
                 r,
                 Some(Continuation_to_envelope(continuation, encryption_key(r.sender))),
                 signer, recipient)

\* the check of a response or an event: an absent senderContinuation passes
SealedRequest_check_peer_continuation_Optional(peer_continuation) ==
    IF peer_continuation # None /\ ~is_encrypted(subject(peer_continuation[1]))
    THEN Err("PeerContinuationNotEncrypted")
    ELSE Ok(peer_continuation)

\* the check of a reader that looks inside the sender's continuation and
\* refuses one that carries a validUntil
SealedRequest_check_peer_continuation_Inspects(peer_continuation) ==
    IF peer_continuation # None
    THEN (IF ~is_encrypted(subject(peer_continuation[1]))
          THEN Err("PeerContinuationNotEncrypted")
          ELSE IF objects_for_predicate(
                      subject(peer_continuation[1]).content.inner,
                      "validUntil") # {}
          THEN Err("ContinuationExpired")
          ELSE Ok(peer_continuation))
    ELSE Err("MissingPeerContinuation")

\* SealedRequest::try_from_envelope: the senderContinuation must be there and
\* must be encrypted
SealedRequest_check_peer_continuation(peer_continuation) ==
    IF peer_continuation # None
    THEN (IF ~is_encrypted(subject(peer_continuation[1]))
          THEN Err("PeerContinuationNotEncrypted")
          ELSE Ok(peer_continuation))
    ELSE Err("MissingPeerContinuation")

\* the state of a request that reports the null envelope when there is no
\* recipientContinuation
SealedRequest_parsed_state_AbsentIsNull(encrypted_continuation, expected_id, now, recipient_private_key) ==
    IF encrypted_continuation # None
    THEN LET continuation ==
                 Continuation_try_from_envelope(
                     encrypted_continuation[1], expected_id, now,
                     Some(recipient_private_key))
         IN  IF ~continuation.ok THEN continuation
             ELSE Ok(Some(continuation.v.state))
    ELSE Ok(Some(NullEnvelope))

\* SealedRequest::try_from_envelope: the state kept from the recipientContinuation
SealedRequest_parsed_state(encrypted_continuation, expected_id, now, recipient_private_key) ==
    IF encrypted_continuation # None
    THEN LET continuation ==
                 Continuation_try_from_envelope(
                     encrypted_continuation[1], expected_id, now,
                     Some(recipient_private_key))
         IN  IF ~continuation.ok THEN continuation
             ELSE Ok(Some(continuation.v.state))
    ELSE Ok(None)

\* Variant of SealedRequest::try_from_envelope that validates the
\* recipientContinuation before it looks at the senderContinuation.
SealedRequest_try_from_envelope_ContinuationFirst(encrypted_envelope, id, now, recipient) ==
    LET signed_envelope == decrypt_to_recipient(encrypted_envelope, recipient)
    IN  IF ~signed_envelope.ok THEN signed_envelope
        ELSE
        LET inner == unwrap_envelope(signed_envelope.v)
        IN  IF ~inner.ok THEN inner
            ELSE
            LET sender_object == object_for_predicate(inner.v, "sender")
            IN  IF ~sender_object.ok THEN sender_object
                ELSE
                LET sender == XIDDocument_try_from(sender_object.v)
                IN  IF ~sender.ok THEN sender
                    ELSE IF verification_key(sender.v) = None
                    THEN Err("SenderMissingVerificationKey")
                    ELSE
                    LET request_envelope ==
                            verify(signed_envelope.v, verification_key(sender.v)[1])
                    IN  IF ~request_envelope.ok THEN request_envelope
                        ELSE
                        LET peer_continuation ==
                                optional_object_for_predicate(
                                    request_envelope.v, "senderContinuation")
                            encrypted_continuation ==
                                optional_object_for_predicate(
                                    request_envelope.v, "recipientContinuation")
                            state ==
                                SealedRequest_parsed_state(
                                    encrypted_continuation.v, id, now,
                                    recipient)
                            request == Request_try_from(request_envelope.v)
                            checked ==
                                SealedRequest_check_peer_continuation(
                                    peer_continuation.v)
                        IN  IF ~encrypted_continuation.ok
                            THEN encrypted_continuation
                            ELSE IF ~state.ok THEN state
                            ELSE IF ~peer_continuation.ok THEN peer_continuation
                            ELSE IF ~checked.ok THEN checked
                            ELSE IF ~request.ok THEN request
                            ELSE Ok([request |-> request.v,
                                     sender |-> sender.v,
                                     state |-> state.v,
                                     peer_continuation |-> peer_continuation.v])

\* SealedRequest::try_from_envelope
SealedRequest_try_from_envelope(encrypted_envelope, id, now, recipient) ==
    LET signed_envelope == decrypt_to_recipient(encrypted_envelope, recipient)
    IN  IF ~signed_envelope.ok THEN signed_envelope
        ELSE
        LET inner == unwrap_envelope(signed_envelope.v)
        IN  IF ~inner.ok THEN inner
            ELSE
            LET sender_object == object_for_predicate(inner.v, "sender")
            IN  IF ~sender_object.ok THEN sender_object
                ELSE
                LET sender == XIDDocument_try_from(sender_object.v)
                IN  IF ~sender.ok THEN sender
                    ELSE IF verification_key(sender.v) = None
                    THEN Err("SenderMissingVerificationKey")
                    ELSE
                    LET request_envelope ==
                            verify(signed_envelope.v, verification_key(sender.v)[1])
                    IN  IF ~request_envelope.ok THEN request_envelope
                        ELSE
                        LET peer_continuation ==
                                optional_object_for_predicate(
                                    request_envelope.v, "senderContinuation")
                            encrypted_continuation ==
                                optional_object_for_predicate(
                                    request_envelope.v, "recipientContinuation")
                            state ==
                                SealedRequest_parsed_state(
                                    encrypted_continuation.v, id, now,
                                    recipient)
                            request == Request_try_from(request_envelope.v)
                            checked ==
                                SealedRequest_check_peer_continuation(
                                    peer_continuation.v)
                        IN  IF ~peer_continuation.ok THEN peer_continuation
                            ELSE IF ~checked.ok THEN checked
                            ELSE IF ~encrypted_continuation.ok
                            THEN encrypted_continuation
                            ELSE IF ~state.ok THEN state
                            ELSE IF ~request.ok THEN request
                            ELSE Ok([request |-> request.v,
                                     sender |-> sender.v,
                                     state |-> state.v,
                                     peer_continuation |-> peer_continuation.v])

(* ---------------------------- SealedResponse --------------------------- *)
\* SealedResponse::new_success
SealedResponse_new_success(id, sender) ==
    [response |-> Response_new_success(id), sender |-> sender,
     state |-> None, peer_continuation |-> None]

\* SealedResponse::new_failure
SealedResponse_new_failure(id, sender) ==
    [response |-> Response_new_failure(id), sender |-> sender,
     state |-> None, peer_continuation |-> None]

\* SealedResponse::new_early_failure
SealedResponse_new_early_failure(sender) ==
    [response |-> Response_new_early_failure, sender |-> sender,
     state |-> None, peer_continuation |-> None]

\* with_state that does not look at the kind of response
SealedResponse_with_state_Unchecked(r, state) == Ok([r EXCEPT !.state = Some(state)])

\* SealedResponse::with_state: Err("panic") is the panic! of the source
SealedResponse_with_state(r, state) ==
    IF r.response.ok THEN Ok([r EXCEPT !.state = Some(state)]) ELSE Err("panic")

\* SealedResponse::with_optional_state
SealedResponse_with_optional_state(r, state) ==
    IF state # None THEN SealedResponse_with_state(r, state[1])
    ELSE Ok([r EXCEPT !.state = None])

\* SealedResponse::with_peer_continuation
SealedResponse_with_peer_continuation(r, pc) ==
    [r EXCEPT !.peer_continuation = pc]

\* to_envelope that leaves out the recipientContinuation assertion
SealedResponse_to_envelope_NoRecipientContinuation(r, valid_until, signer, recipient) ==
    IF r.state # None /\ encryption_key(r.sender) = None
    THEN Err("SenderMissingEncryptionKey")
    ELSE
    LET sender_continuation ==
            IF r.state # None
            THEN Some(Continuation_to_envelope(
                          with_optional_valid_until(
                              Continuation_new(r.state[1]), valid_until),
                          encryption_key(r.sender)))
            ELSE None
        result ==
            add_optional_assertion(
                add_assertion(Response_into_envelope(r.response),
                              "sender", XIDDocument_to_envelope(r.sender)),
                "senderContinuation", sender_continuation)
        signed == IF signer # None THEN sign(result, signer[1]) ELSE result
    IN  IF recipient # None
        THEN (IF encryption_key(recipient[1]) = None
              THEN Err("RecipientMissingEncryptionKey")
              ELSE Ok(encrypt_to_recipient(signed, encryption_key(recipient[1])[1])))
        ELSE Ok(signed)

\* to_envelope that emits a continuation for a valid_until alone, as an event
\* does
SealedResponse_to_envelope_UntilAlone(r, valid_until, signer, recipient) ==
    IF encryption_key(r.sender) = None
    THEN Err("SenderMissingEncryptionKey")
    ELSE
    LET sender_continuation ==
            IF r.state # None
            THEN Some(Continuation_to_envelope(
                          with_optional_valid_until(
                              Continuation_new(r.state[1]), valid_until),
                          encryption_key(r.sender)))
            ELSE IF valid_until # None
            THEN Some(Continuation_to_envelope(
                          with_valid_until(
                              Continuation_new(NullEnvelope), valid_until[1]),
                          encryption_key(r.sender)))
            ELSE None
        result ==
            add_optional_assertion(
                add_optional_assertion(
                    add_assertion(Response_into_envelope(r.response),
                                  "sender", XIDDocument_to_envelope(r.sender)),
                    "senderContinuation", sender_continuation),
                "recipientContinuation", r.peer_continuation)
        signed == IF signer # None THEN sign(result, signer[1]) ELSE result
    IN  IF recipient # None
        THEN (IF encryption_key(recipient[1]) = None
              THEN Err("RecipientMissingEncryptionKey")
              ELSE Ok(encrypt_to_recipient(signed, encryption_key(recipient[1])[1])))
        ELSE Ok(signed)

\* to_envelope that ignores valid_until
SealedResponse_to_envelope_NoUntil(r, valid_until, signer, recipient) ==
    IF r.state # None /\ encryption_key(r.sender) = None
    THEN Err("SenderMissingEncryptionKey")
    ELSE
    LET sender_continuation ==
            IF r.state # None
            THEN Some(Continuation_to_envelope(
                          Continuation_new(r.state[1]),
                          encryption_key(r.sender)))
            ELSE None
        result ==
            add_optional_assertion(
                add_optional_assertion(
                    add_assertion(Response_into_envelope(r.response),
                                  "sender", XIDDocument_to_envelope(r.sender)),
                    "senderContinuation", sender_continuation),
                "recipientContinuation", r.peer_continuation)
        signed == IF signer # None THEN sign(result, signer[1]) ELSE result
    IN  IF recipient # None
        THEN (IF encryption_key(recipient[1]) = None
              THEN Err("RecipientMissingEncryptionKey")
              ELSE Ok(encrypt_to_recipient(signed, encryption_key(recipient[1])[1])))
        ELSE Ok(signed)

\* the second half of to_envelope that leaves the envelope unencrypted when the
\* recipient has no encryption key
SealedResponse_seal_SkipKeyless(r, sender_continuation, signer, recipient) ==
    LET result ==
            add_optional_assertion(
                add_optional_assertion(
                    add_assertion(Response_into_envelope(r.response),
                                  "sender", XIDDocument_to_envelope(r.sender)),
                    "senderContinuation", sender_continuation),
                "recipientContinuation", r.peer_continuation)
        signed == IF signer # None THEN sign(result, signer[1]) ELSE result
    IN  IF recipient # None /\ encryption_key(recipient[1]) # None
        THEN Ok(encrypt_to_recipient(signed, encryption_key(recipient[1])[1]))
        ELSE Ok(signed)

\* SealedResponse::to_envelope, second half: the assertions, the signature and
\* the encryption, for a sender continuation that is there or not
SealedResponse_seal(r, sender_continuation, signer, recipient) ==
    LET result ==
            add_optional_assertion(
                add_optional_assertion(
                    add_assertion(Response_into_envelope(r.response),
                                  "sender", XIDDocument_to_envelope(r.sender)),
                    "senderContinuation", sender_continuation),
                "recipientContinuation", r.peer_continuation)
        signed == IF signer # None THEN sign(result, signer[1]) ELSE result
    IN  IF recipient # None
        THEN (IF encryption_key(recipient[1]) = None
              THEN Err("RecipientMissingEncryptionKey")
              ELSE Ok(encrypt_to_recipient(signed, encryption_key(recipient[1])[1])))
        ELSE Ok(signed)

\* SealedResponse::to_envelope
SealedResponse_to_envelope(r, valid_until, signer, recipient) ==
    IF r.state # None /\ encryption_key(r.sender) = None
    THEN Err("SenderMissingEncryptionKey")
    ELSE
    LET sender_continuation ==
            IF r.state # None
            THEN Some(Continuation_to_envelope(
                          with_optional_valid_until(
                              Continuation_new(r.state[1]), valid_until),
                          encryption_key(r.sender)))
            ELSE None
    IN  SealedResponse_seal(r, sender_continuation, signer, recipient)

\* SealedResponse::try_from_encrypted_envelope: the senderContinuation, when
\* there, must be encrypted
SealedResponse_check_peer_continuation(peer_continuation) ==
    IF peer_continuation # None /\ ~is_encrypted(subject(peer_continuation[1]))
    THEN Err("PeerContinuationNotEncrypted")
    ELSE Ok(peer_continuation)

\* the state of a response that keeps the null envelope as a state
SealedResponse_parsed_state_KeepNull(encrypted_continuation, expected_id, now, recipient_private_key) ==
    IF encrypted_continuation # None
    THEN LET continuation ==
                 Continuation_try_from_envelope(
                     encrypted_continuation[1], expected_id, now,
                     Some(recipient_private_key))
         IN  IF ~continuation.ok THEN continuation
             ELSE Ok(Some(continuation.v.state))
    ELSE Ok(None)

\* the state of a response that goes on without state when the
\* recipientContinuation is refused
SealedResponse_parsed_state_IgnoreFailure(encrypted_continuation, expected_id, now, recipient_private_key) ==
    IF encrypted_continuation # None
    THEN LET continuation ==
                 Continuation_try_from_envelope(
                     encrypted_continuation[1], expected_id, now,
                     Some(recipient_private_key))
         IN  IF ~continuation.ok THEN Ok(None)
             ELSE IF is_null(continuation.v.state) THEN Ok(None)
             ELSE Ok(Some(continuation.v.state))
    ELSE Ok(None)

\* Variant that reads the recipientContinuation without a key.
SealedResponse_parsed_state_NoKey(encrypted_continuation, expected_id, now, recipient_private_key) ==
    IF encrypted_continuation # None
    THEN LET continuation ==
                 Continuation_try_from_envelope(
                     encrypted_continuation[1], expected_id, now, None)
         IN  IF ~continuation.ok THEN continuation
             ELSE IF is_null(continuation.v.state) THEN Ok(None)
             ELSE Ok(Some(continuation.v.state))
    ELSE Ok(None)

\* SealedResponse::try_from_encrypted_envelope: the state kept from the
\* recipientContinuation, the null envelope standing for no state
SealedResponse_parsed_state(encrypted_continuation, expected_id, now, recipient_private_key) ==
    IF encrypted_continuation # None
    THEN LET continuation ==
                 Continuation_try_from_envelope(
                     encrypted_continuation[1], expected_id, now,
                     Some(recipient_private_key))
         IN  IF ~continuation.ok THEN continuation
             ELSE IF is_null(continuation.v.state) THEN Ok(None)
             ELSE Ok(Some(continuation.v.state))
    ELSE Ok(None)

\* SealedResponse::try_from_encrypted_envelope
SealedResponse_try_from_encrypted_envelope(encrypted_envelope, expected_id, now, recipient_private_key) ==
    LET signed_envelope ==
            decrypt_to_recipient(encrypted_envelope, recipient_private_key)
    IN  IF ~signed_envelope.ok THEN signed_envelope
        ELSE
        LET inner == unwrap_envelope(signed_envelope.v)
        IN  IF ~inner.ok THEN inner
            ELSE
            LET sender_object == object_for_predicate(inner.v, "sender")
            IN  IF ~sender_object.ok THEN sender_object
                ELSE
                LET sender == XIDDocument_try_from(sender_object.v)
                IN  IF ~sender.ok THEN sender
                    ELSE IF verification_key(sender.v) = None
                    THEN Err("SenderMissingVerificationKey")
                    ELSE
                    LET response_envelope ==
                            verify(signed_envelope.v, verification_key(sender.v)[1])
                    IN  IF ~response_envelope.ok THEN response_envelope
                        ELSE
                        LET peer_continuation ==
                                optional_object_for_predicate(
                                    response_envelope.v, "senderContinuation")
                            encrypted_continuation ==
                                optional_object_for_predicate(
                                    response_envelope.v, "recipientContinuation")
                            state ==
                                SealedResponse_parsed_state(
                                    encrypted_continuation.v, expected_id, now,
                                    recipient_private_key)
                            response == Response_try_from(response_envelope.v)
                            checked ==
                                SealedResponse_check_peer_continuation(
                                    peer_continuation.v)
                        IN  IF ~peer_continuation.ok THEN peer_continuation
                            ELSE IF ~checked.ok THEN checked
                            ELSE IF ~encrypted_continuation.ok
                            THEN encrypted_continuation
                            ELSE IF ~state.ok THEN state
                            ELSE IF ~response.ok THEN response
                            ELSE Ok([response |-> response.v,
                                     sender |-> sender.v,
                                     state |-> state.v,
                                     peer_continuation |-> peer_continuation.v])

(* ---------------------------- SealedEvent ------------------------------ *)
\* Event::new(content, id)
Event_new(content, id) == [id |-> id, content |-> content]

\* Event::into_envelope: event(ARID) [ 'content': content ]
Event_into_envelope(e) ==
    Node([t |-> "event", id |-> e.id], {Assertion("content", Str(e.content))})

\* Event::<T>::try_from(envelope)
Event_try_from(e) ==
    LET content == object_for_predicate(e, "content")
    IN  IF subject(e).t # "event" THEN Err("Envelope(InvalidFormat)")
        ELSE IF ~content.ok THEN content
        ELSE IF subject(content.v).t # "str" THEN Err("Envelope(InvalidFormat)")
        ELSE Ok([id |-> subject(e).id, content |-> subject(content.v).s])

\* SealedEvent::new
SealedEvent_new(content, id, sender) ==
    [event |-> Event_new(content, id), sender |-> sender,
     state |-> None, peer_continuation |-> None]

\* SealedEvent::with_state
SealedEvent_with_state(e, state) == [e EXCEPT !.state = Some(state)]

\* Variant of SealedEvent::with_optional_state that keeps the state when it
\* is given None.
SealedEvent_with_optional_state_Preserves(e, state) ==
    IF state # None THEN SealedEvent_with_state(e, state[1]) ELSE e

\* SealedEvent::with_optional_state
SealedEvent_with_optional_state(e, state) ==
    IF state # None THEN SealedEvent_with_state(e, state[1])
    ELSE [e EXCEPT !.state = None]

\* SealedEvent::with_peer_continuation
SealedEvent_with_peer_continuation(e, pc) ==
    [e EXCEPT !.peer_continuation = Some(pc)]

\* SealedEvent::with_optional_peer_continuation
SealedEvent_with_optional_peer_continuation(e, pc) ==
    [e EXCEPT !.peer_continuation = pc]

\* the sender continuation of an event emitted for a state only, as a response
\* does
SealedEvent_sender_continuation_StateOnly(e, valid_until, sender_encryption_key) ==
    IF e.state # None
    THEN Some(Continuation_to_envelope(
                  with_optional_valid_until(Continuation_new(e.state[1]),
                                            valid_until),
                  Some(sender_encryption_key)))
    ELSE None

\* the sender continuation of an event bound to the event's id, as a request
\* does
SealedEvent_sender_continuation_WithId(e, valid_until, sender_encryption_key) ==
    IF e.state # None
    THEN Some(Continuation_to_envelope(
                  with_optional_valid_until(
                      with_valid_id(Continuation_new(e.state[1]), e.event.id),
                      valid_until),
                  Some(sender_encryption_key)))
    ELSE IF valid_until # None
    THEN Some(Continuation_to_envelope(
                  with_valid_until(
                      with_valid_id(Continuation_new(NullEnvelope), e.event.id),
                      valid_until[1]),
                  Some(sender_encryption_key)))
    ELSE None

\* SealedEvent::to_envelope_for_recipients: the sender continuation, emitted
\* for a state or for a valid_until
SealedEvent_sender_continuation(e, valid_until, sender_encryption_key) ==
    IF e.state # None
    THEN Some(Continuation_to_envelope(
                  with_optional_valid_until(Continuation_new(e.state[1]),
                                            valid_until),
                  Some(sender_encryption_key)))
    ELSE IF valid_until # None
    THEN Some(Continuation_to_envelope(
                  with_valid_until(Continuation_new(NullEnvelope),
                                   valid_until[1]),
                  Some(sender_encryption_key)))
    ELSE None

\* SealedEvent::to_envelope_for_recipients, second half: the assertions, the
\* signature and the encryption, for a sender continuation that is there or not
SealedEvent_seal(e, sender_continuation, signer, recipients) ==
    LET result ==
            add_optional_assertion(
                add_optional_assertion(
                    add_assertion(Event_into_envelope(e.event),
                                  "sender", XIDDocument_to_envelope(e.sender)),
                    "senderContinuation", sender_continuation),
                "recipientContinuation", e.peer_continuation)
        signed == IF signer # None THEN sign(result, signer[1]) ELSE result
    IN  IF recipients # {}
        THEN (IF \E r \in recipients : encryption_key(r) = None
              THEN Err("RecipientMissingEncryptionKey")
              ELSE Ok(encrypt_subject_to_recipients(
                          wrap_envelope(signed),
                          {encryption_key(r)[1] : r \in recipients})))
        ELSE Ok(signed)

\* SealedEvent::to_envelope_for_recipients, recipients being a set of documents
SealedEvent_to_envelope_for_recipients(e, valid_until, signer, recipients) ==
    IF encryption_key(e.sender) = None THEN Err("SenderMissingEncryptionKey")
    ELSE SealedEvent_seal(
             e,
             SealedEvent_sender_continuation(
                 e, valid_until, encryption_key(e.sender)[1]),
             signer, recipients)

\* SealedEvent::to_envelope: zero or one recipient
SealedEvent_to_envelope(e, valid_until, signer, recipient) ==
    SealedEvent_to_envelope_for_recipients(
        e, valid_until, signer,
        IF recipient # None THEN {recipient[1]} ELSE {})

\* the check of an event that lets a senderContinuation in the clear pass
SealedEvent_check_peer_continuation_Unchecked(peer_continuation) ==
    Ok(peer_continuation)

\* SealedEvent::try_from_envelope: the senderContinuation, when there, must be
\* encrypted
SealedEvent_check_peer_continuation(peer_continuation) ==
    IF peer_continuation # None /\ ~is_encrypted(subject(peer_continuation[1]))
    THEN Err("PeerContinuationNotEncrypted")
    ELSE Ok(peer_continuation)

\* Variant that holds an expected id against a message without
\* recipientContinuation.
SealedEvent_parsed_state_IdWithout(encrypted_continuation, expected_id, now, recipient_private_key) ==
    IF encrypted_continuation # None
    THEN LET continuation ==
                 Continuation_try_from_envelope(
                     encrypted_continuation[1], expected_id, now,
                     Some(recipient_private_key))
         IN  IF ~continuation.ok THEN continuation
             ELSE Ok(Some(continuation.v.state))
    ELSE IF expected_id # None THEN Err("ContinuationIdInvalid")
    ELSE Ok(None)

\* SealedEvent::try_from_envelope: the state kept from the recipientContinuation
SealedEvent_parsed_state(encrypted_continuation, expected_id, now, recipient_private_key) ==
    IF encrypted_continuation # None
    THEN LET continuation ==
                 Continuation_try_from_envelope(
                     encrypted_continuation[1], expected_id, now,
                     Some(recipient_private_key))
         IN  IF ~continuation.ok THEN continuation
             ELSE Ok(Some(continuation.v.state))
    ELSE Ok(None)

\* SealedEvent::try_from_envelope
SealedEvent_try_from_envelope(encrypted_envelope, expected_id, now, recipient_private_key) ==
    LET signed_envelope ==
            decrypt_to_recipient(encrypted_envelope, recipient_private_key)
    IN  IF ~signed_envelope.ok THEN signed_envelope
        ELSE
        LET inner == unwrap_envelope(signed_envelope.v)
        IN  IF ~inner.ok THEN inner
            ELSE
            LET sender_object == object_for_predicate(inner.v, "sender")
            IN  IF ~sender_object.ok THEN sender_object
                ELSE
                LET sender == XIDDocument_try_from(sender_object.v)
                IN  IF ~sender.ok THEN sender
                    ELSE IF verification_key(sender.v) = None
                    THEN Err("SenderMissingVerificationKey")
                    ELSE
                    LET event_envelope ==
                            verify(signed_envelope.v, verification_key(sender.v)[1])
                    IN  IF ~event_envelope.ok THEN event_envelope
                        ELSE
                        LET peer_continuation ==
                                optional_object_for_predicate(
                                    event_envelope.v, "senderContinuation")
                            encrypted_continuation ==
                                optional_object_for_predicate(
                                    event_envelope.v, "recipientContinuation")
                            state ==
                                SealedEvent_parsed_state(
                                    encrypted_continuation.v, expected_id, now,
                                    recipient_private_key)
                            event == Event_try_from(event_envelope.v)
                            checked ==
                                SealedEvent_check_peer_continuation(
                                    peer_continuation.v)
                        IN  IF ~peer_continuation.ok THEN peer_continuation
                            ELSE IF ~checked.ok THEN checked
                            ELSE IF ~encrypted_continuation.ok
                            THEN encrypted_continuation
                            ELSE IF ~state.ok THEN state
                            ELSE IF ~event.ok THEN event
                            ELSE Ok([event |-> event.v,
                                     sender |-> sender.v,
                                     state |-> state.v,
                                     peer_continuation |-> peer_continuation.v])

(* ---------------------------- state ------------------------------------ *)
VARIABLES
    cont,       \* Option: the Continuation under construction
    contEnv,    \* Option: [env, sender], the result of Continuation::to_envelope
    contChk,    \* Option: [now, id, date, idok, both], the last is_valid* call
    contRes,    \* Option: [id, now, recipient, res], the last try_from_envelope
    phase,      \* where the request/response exchange stands
    prior,      \* Option: [cont, env], a continuation the server issued earlier
    req,        \* Option: the SealedRequest the client composes
    reqOut,     \* Option: [valid_until, signer, recipient, stripped, forged, res]
    reqIn,      \* Option: [id, now, key, res], the server's parse of the request
    resp,       \* Option: the SealedResponse the server composes
    respOut,    \* Option: [valid_until, signer, recipient, forged, res]
    respIn,     \* Option: [id, now, key, res], the client's parse of the response
    ev,         \* Option: the SealedEvent the client composes
    evOut,      \* Option: [valid_until, signer, recipients, forged, res]
    evIn        \* Option: [id, now, key, res], a recipient's parse of the event

contVars == <<cont, contEnv, contChk, contRes>>
sealedVars == <<phase, prior, req, reqOut, reqIn, resp, respOut, respIn>>
eventVars == <<ev, evOut, evIn>>
vars == <<cont, contEnv, contChk, contRes,
          phase, prior, req, reqOut, reqIn, resp, respOut, respIn,
          ev, evOut, evIn>>

\* the states a peer stores: two texts and the null envelope
StateEnvelopes == {Str("s1"), Str("s2"), NullEnvelope}

Init ==
    /\ cont = None
    /\ contEnv = None
    /\ contChk = None
    /\ contRes = None
    /\ phase = "start"
    /\ prior = None
    /\ req = None
    /\ reqOut = None
    /\ reqIn = None
    /\ resp = None
    /\ respOut = None
    /\ respIn = None
    /\ ev = None
    /\ evOut = None
    /\ evIn = None

ContNew ==
    /\ cont = None
    /\ \E s \in StateEnvelopes : cont' = Some(Continuation_new(s))
    /\ UNCHANGED <<contEnv, contChk, contRes>>
    /\ UNCHANGED sealedVars
    /\ UNCHANGED eventVars

ContWithValidId ==
    /\ cont # None /\ contEnv = None /\ contChk = None
    /\ \E id \in Ids : cont' = Some(with_valid_id(cont[1], id))
    /\ UNCHANGED <<contEnv, contChk, contRes>>
    /\ UNCHANGED sealedVars
    /\ UNCHANGED eventVars

ContWithOptionalValidId ==
    /\ cont # None /\ contEnv = None /\ contChk = None
    /\ \E oid \in Opt(Ids) : cont' = Some(with_optional_valid_id(cont[1], oid))
    /\ UNCHANGED <<contEnv, contChk, contRes>>
    /\ UNCHANGED sealedVars
    /\ UNCHANGED eventVars

ContWithValidUntil ==
    /\ cont # None /\ contEnv = None /\ contChk = None
    /\ \E d \in Times : cont' = Some(with_valid_until(cont[1], d))
    /\ UNCHANGED <<contEnv, contChk, contRes>>
    /\ UNCHANGED sealedVars
    /\ UNCHANGED eventVars

ContWithOptionalValidUntil ==
    /\ cont # None /\ contEnv = None /\ contChk = None
    /\ \E od \in Opt(Times) : cont' = Some(with_optional_valid_until(cont[1], od))
    /\ UNCHANGED <<contEnv, contChk, contRes>>
    /\ UNCHANGED sealedVars
    /\ UNCHANGED eventVars

ContWithValidDuration ==
    /\ cont # None /\ contEnv = None /\ contChk = None
    /\ \E clock \in Times, duration \in Times :
          /\ clock + duration <= MaxTime
          /\ cont' = Some(with_valid_duration(cont[1], clock, duration))
    /\ UNCHANGED <<contEnv, contChk, contRes>>
    /\ UNCHANGED sealedVars
    /\ UNCHANGED eventVars

ContIsValid ==
    /\ cont # None /\ contEnv = None
    /\ \E now \in Opt(Times), id \in Opt(Ids) :
          contChk' = Some([now |-> now, id |-> id,
                           date |-> is_valid_date(cont[1], now),
                           idok |-> is_valid_id(cont[1], id),
                           both |-> is_valid(cont[1], now, id)])
    /\ UNCHANGED <<cont, contEnv, contRes>>
    /\ UNCHANGED sealedVars
    /\ UNCHANGED eventVars

ContToEnvelope ==
    /\ cont # None /\ contEnv = None /\ contChk = None
    /\ \E sender \in Opt(Keys) :
          contEnv' = Some([env |-> Continuation_to_envelope(cont[1], sender),
                           sender |-> sender])
    /\ UNCHANGED <<cont, contChk, contRes>>
    /\ UNCHANGED sealedVars
    /\ UNCHANGED eventVars

ContTryFromEnvelope ==
    /\ contEnv # None
    /\ \E id \in Opt(Ids), now \in Opt(Times), recipient \in Opt(Keys) :
          contRes' = Some([id |-> id, now |-> now, recipient |-> recipient,
                           res |-> Continuation_try_from_envelope(
                                       contEnv[1].env, id, now, recipient)])
    /\ UNCHANGED <<cont, contEnv, contChk>>
    /\ UNCHANGED sealedVars
    /\ UNCHANGED eventVars

ContNext ==
    \/ ContNew
    \/ ContWithValidId
    \/ ContWithOptionalValidId
    \/ ContWithValidUntil
    \/ ContWithOptionalValidUntil
    \/ ContWithValidDuration
    \/ ContIsValid
    \/ ContToEnvelope
    \/ ContTryFromEnvelope

ContSpec == Init /\ [][ContNext]_vars


(* ---------------------------- request / response exchange -------------- *)
\* the states the client stores in its requests
ClientStates == {Str("s1"), NullEnvelope}
\* the states the server stores in its responses
ServerStates == {Str("s2"), NullEnvelope}

\* The server answered an earlier request with a response holding its state:
\* the client is left with the server's continuation (no valid_id, optional
\* valid_until, encrypted to the server).
IssuePrior(states) ==
    /\ phase = "start" /\ prior = None
    /\ \E s \in states, vu \in Opt(Times) :
          LET c == with_optional_valid_until(Continuation_new(s), vu)
          IN  prior' = Some([cont |-> c,
                             env |-> Continuation_to_envelope(
                                         c, encryption_key(ServerDoc))])
    /\ UNCHANGED <<phase, req, reqOut, reqIn, resp, respOut, respIn>>
    /\ UNCHANGED contVars
    /\ UNCHANGED eventVars

NewRequest(senders) ==
    /\ phase = "start"
    /\ \E id \in Ids, sender \in senders :
          req' = Some(SealedRequest_new("test", id, sender))
    /\ phase' = "build"
    /\ UNCHANGED <<prior, reqOut, reqIn, resp, respOut, respIn>>
    /\ UNCHANGED contVars
    /\ UNCHANGED eventVars

ReqWithState ==
    /\ phase = "build"
    /\ \E s \in ClientStates : req' = Some(SealedRequest_with_state(req[1], s))
    /\ UNCHANGED <<phase, prior, reqOut, reqIn, resp, respOut, respIn>>
    /\ UNCHANGED contVars
    /\ UNCHANGED eventVars

ReqWithOptionalState ==
    /\ phase = "build"
    /\ \E s \in Opt(ClientStates) :
          req' = Some(SealedRequest_with_optional_state(req[1], s))
    /\ UNCHANGED <<phase, prior, reqOut, reqIn, resp, respOut, respIn>>
    /\ UNCHANGED contVars
    /\ UNCHANGED eventVars

ReqWithPeerContinuation ==
    /\ phase = "build" /\ prior # None
    /\ req' = Some(SealedRequest_with_peer_continuation(req[1], prior[1].env))
    /\ UNCHANGED <<phase, prior, reqOut, reqIn, resp, respOut, respIn>>
    /\ UNCHANGED contVars
    /\ UNCHANGED eventVars

ReqWithOptionalPeerContinuation ==
    /\ phase = "build"
    /\ \E pc \in {None} \cup {Some(p[1].env) : p \in {q \in {prior} : q # None}} :
          req' = Some(SealedRequest_with_optional_peer_continuation(req[1], pc))
    /\ UNCHANGED <<phase, prior, reqOut, reqIn, resp, respOut, respIn>>
    /\ UNCHANGED contVars
    /\ UNCHANGED eventVars

SendRequest(signers, recipients) ==
    /\ phase = "build"
    /\ \E vu \in Opt(Times), signer \in signers, recipient \in recipients :
          reqOut' = Some([valid_until |-> vu, signer |-> signer,
                          recipient |-> recipient, stripped |-> FALSE,
                          forged |-> "none",
                          res |-> SealedRequest_to_envelope(
                                      req[1], vu, signer, recipient)])
    /\ phase' = "sent"
    /\ UNCHANGED <<prior, req, reqIn, resp, respOut, respIn>>
    /\ UNCHANGED contVars
    /\ UNCHANGED eventVars

\* A peer that does not follow to_envelope: the same request, signed and
\* encrypted, without the senderContinuation assertion.
SendStrippedRequest ==
    /\ phase = "build"
    /\ \E signer \in Opt({ClientKey}), recipient \in Opt({ServerDoc}) :
          reqOut' = Some([valid_until |-> None, signer |-> signer,
                          recipient |-> recipient, stripped |-> TRUE,
                          forged |-> "none",
                          res |-> SealedRequest_seal(
                                      req[1], None, signer, recipient)])
    /\ phase' = "sent"
    /\ UNCHANGED <<prior, req, reqIn, resp, respOut, respIn>>
    /\ UNCHANGED contVars
    /\ UNCHANGED eventVars

ServerParse(ids, nows, keys) ==
    /\ phase = "sent" /\ reqOut[1].res.ok
    /\ \E id \in ids, now \in nows, key \in keys :
          reqIn' = Some([id |-> id, now |-> now, key |-> key,
                         res |-> SealedRequest_try_from_envelope(
                                     reqOut[1].res.v, id, now, key)])
    /\ phase' = "parsed"
    /\ UNCHANGED <<prior, req, reqOut, resp, respOut, respIn>>
    /\ UNCHANGED contVars
    /\ UNCHANGED eventVars

NewSuccess(senders) ==
    /\ phase = "parsed" /\ reqIn[1].res.ok
    /\ \E sender \in senders :
          resp' = Some(SealedResponse_new_success(
                           reqIn[1].res.v.request.id, sender))
    /\ phase' = "reply"
    /\ UNCHANGED <<prior, req, reqOut, reqIn, respOut, respIn>>
    /\ UNCHANGED contVars
    /\ UNCHANGED eventVars

NewFailure(senders) ==
    /\ phase = "parsed" /\ reqIn[1].res.ok
    /\ \E sender \in senders :
          resp' = Some(SealedResponse_new_failure(
                           reqIn[1].res.v.request.id, sender))
    /\ phase' = "reply"
    /\ UNCHANGED <<prior, req, reqOut, reqIn, respOut, respIn>>
    /\ UNCHANGED contVars
    /\ UNCHANGED eventVars

\* An early failure: the server could not read the message, so it knows
\* neither the request id nor the sender's continuation.
NewEarlyFailure ==
    /\ phase = "sent" /\ reqOut[1].res.ok
    /\ resp' = Some(SealedResponse_new_early_failure(ServerDoc))
    /\ phase' = "reply"
    /\ UNCHANGED <<prior, req, reqOut, reqIn, respOut, respIn>>
    /\ UNCHANGED contVars
    /\ UNCHANGED eventVars

\* with_state on a failure response panics: the exchange ends there
RespWithState ==
    /\ phase = "reply"
    /\ \E s \in ServerStates :
          LET r == SealedResponse_with_state(resp[1], s)
          IN  IF r.ok THEN resp' = Some(r.v) /\ phase' = phase
              ELSE resp' = resp /\ phase' = "panicked"
    /\ UNCHANGED <<prior, req, reqOut, reqIn, respOut, respIn>>
    /\ UNCHANGED contVars
    /\ UNCHANGED eventVars

RespWithOptionalState ==
    /\ phase = "reply"
    /\ \E s \in Opt(ServerStates) :
          LET r == SealedResponse_with_optional_state(resp[1], s)
          IN  IF r.ok THEN resp' = Some(r.v) /\ phase' = phase
              ELSE resp' = resp /\ phase' = "panicked"
    /\ UNCHANGED <<prior, req, reqOut, reqIn, respOut, respIn>>
    /\ UNCHANGED contVars
    /\ UNCHANGED eventVars

\* the server returns the continuation it received, or none
RespWithPeerContinuation ==
    /\ phase = "reply"
    /\ \E pc \in {None} \cup
                 (IF reqIn # None THEN {reqIn[1].res.v.peer_continuation} ELSE {}) :
          resp' = Some(SealedResponse_with_peer_continuation(resp[1], pc))
    /\ UNCHANGED <<phase, prior, req, reqOut, reqIn, respOut, respIn>>
    /\ UNCHANGED contVars
    /\ UNCHANGED eventVars

SendResponse(untils, signers, recipients) ==
    /\ phase = "reply"
    /\ \E vu \in untils, signer \in signers, recipient \in recipients :
          respOut' = Some([valid_until |-> vu, signer |-> signer,
                           recipient |-> recipient, forged |-> "none",
                           res |-> SealedResponse_to_envelope(
                                       resp[1], vu, signer, recipient)])
    /\ phase' = "replied"
    /\ UNCHANGED <<prior, req, reqOut, reqIn, resp, respIn>>
    /\ UNCHANGED contVars
    /\ UNCHANGED eventVars

ClientParse(ids, nows, keys) ==
    /\ phase = "replied" /\ respOut[1].res.ok
    /\ \E id \in ids, now \in nows, key \in keys :
          respIn' = Some([id |-> id, now |-> now, key |-> key,
                          res |-> SealedResponse_try_from_encrypted_envelope(
                                      respOut[1].res.v, id, now, key)])
    /\ phase' = "done"
    /\ UNCHANGED <<prior, req, reqOut, reqIn, resp, respOut>>
    /\ UNCHANGED contVars
    /\ UNCHANGED eventVars

(* ---------------------------- events ----------------------------------- *)
\* the documents an event may be encrypted to
EventRecipients == {ClientDoc, ServerDoc}

\* the client sends an event instead of a request
NewEvent(senders) ==
    /\ phase = "start" /\ ev = None
    /\ \E id \in Ids, sender \in senders :
          ev' = Some(SealedEvent_new("test", id, sender))
    /\ phase' = "event"
    /\ UNCHANGED <<evOut, evIn>>
    /\ UNCHANGED <<prior, req, reqOut, reqIn, resp, respOut, respIn>>
    /\ UNCHANGED contVars

EvWithState ==
    /\ ev # None /\ evOut = None
    /\ \E s \in ClientStates : ev' = Some(SealedEvent_with_state(ev[1], s))
    /\ UNCHANGED <<evOut, evIn>>
    /\ UNCHANGED <<contVars, sealedVars>>

EvWithOptionalState ==
    /\ ev # None /\ evOut = None
    /\ \E s \in Opt(ClientStates) :
          ev' = Some(SealedEvent_with_optional_state(ev[1], s))
    /\ UNCHANGED <<evOut, evIn>>
    /\ UNCHANGED <<contVars, sealedVars>>

EvWithPeerContinuation ==
    /\ ev # None /\ evOut = None /\ prior # None
    /\ ev' = Some(SealedEvent_with_peer_continuation(ev[1], prior[1].env))
    /\ UNCHANGED <<evOut, evIn>>
    /\ UNCHANGED <<contVars, sealedVars>>

EvWithOptionalPeerContinuation ==
    /\ ev # None /\ evOut = None
    /\ \E pc \in {None} \cup {Some(p[1].env) : p \in {q \in {prior} : q # None}} :
          ev' = Some(SealedEvent_with_optional_peer_continuation(ev[1], pc))
    /\ UNCHANGED <<evOut, evIn>>
    /\ UNCHANGED <<contVars, sealedVars>>

\* to_envelope_for_recipients, which to_envelope calls with zero or one
\* recipient
SendEvent(docs) ==
    /\ ev # None /\ evOut = None
    /\ \E vu \in Opt(Times), signer \in Opt({ClientKey}),
          recipients \in SUBSET docs :
          evOut' = Some([valid_until |-> vu, signer |-> signer,
                         recipients |-> recipients, forged |-> "none",
                         res |-> SealedEvent_to_envelope_for_recipients(
                                     ev[1], vu, signer, recipients)])
    /\ UNCHANGED <<ev, evIn>>
    /\ UNCHANGED <<contVars, sealedVars>>

ParseEvent(ids, nows, keys) ==
    /\ evOut # None /\ evIn = None /\ evOut[1].res.ok
    /\ \E id \in ids, now \in nows, key \in keys :
          evIn' = Some([id |-> id, now |-> now, key |-> key,
                        res |-> SealedEvent_try_from_envelope(
                                    evOut[1].res.v, id, now, key)])
    /\ UNCHANGED <<ev, evOut>>
    /\ UNCHANGED <<contVars, sealedVars>>

(* ---------------------------- a peer that does not conform -------------- *)
\* A key pair other than k
OtherKey(k) == CHOOSE j \in Keys : j # k

\* A continuation that was never encrypted: Continuation::to_envelope(None)
CleartextContinuation ==
    Continuation_to_envelope(Continuation_new(Str("s1")), None)

\* A continuation made by the holder of key pair k, who is not the sender
ForeignContinuation(k) ==
    Continuation_to_envelope(Continuation_new(Str("x")), Some(k))

\* the one object of predicate p replaced by o
replace_assertion(e, p, o) ==
    Node(subject(e),
         {a \in assertions(e) : a.pred # p} \cup {Assertion(p, o)})

\* the single components of a signed message that can be modified after it
\* was signed
SingleTamperings ==
    {"payload", "sender", "senderContinuation", "recipientContinuation",
     "signature"}

\* and the sender document and the signature replaced together
Tamperings == SingleTamperings \cup {"resigned"}

\* The content under the signature with one component modified: a payload
\* assertion added, the sender document replaced by that of key pair k, or a
\* continuation replaced by one that k made.
TamperContent(content, how, k) ==
    IF how = "payload" THEN add_assertion(content, "note", Str("x"))
    ELSE IF how \in {"sender", "resigned"}
    THEN replace_assertion(content, "sender",
                           XIDDocument_to_envelope(XIDDocument_from(k)))
    ELSE IF how = "senderContinuation"
    THEN replace_assertion(content, "senderContinuation", ForeignContinuation(k))
    ELSE IF how = "recipientContinuation"
    THEN replace_assertion(content, "recipientContinuation",
                           ForeignContinuation(k))
    ELSE content

\* A signed envelope with one component modified and the signature kept, or
\* with the signature replaced by one that k made over the content, modified
\* or not.
Tamper(signed, how, k) ==
    LET content == Wrapped(TamperContent(subject(signed).inner, how, k))
    IN  IF how \in {"signature", "resigned"}
        THEN Node(content, {Assertion("signed", Signature(k, content))})
        ELSE Node(content, assertions(signed))

\* A message signed and encrypted to recipient_key, opened by someone who can,
\* modified under the signature and encrypted to the same recipient again.
TamperSealed(envelope, how, recipient_key, k) ==
    LET opened == decrypt_to_recipient(envelope, recipient_key)
    IN  IF how \in Tamperings /\ opened.ok
        THEN encrypt_to_recipient(Tamper(opened.v, how, k), recipient_key)
        ELSE envelope

\* the ways a message can differ from what to_envelope produces
Forgeries == {"cleartextContinuation", "keylessSender"} \cup Tamperings

\* the sender continuation of a forged message: in the clear, or as given
ForgedSenderContinuation(how, proper) ==
    IF how = "cleartextContinuation" THEN Some(CleartextContinuation) ELSE proper

\* A request that its sender, holder of key pair signer, signs and encrypts
\* to recipient without following to_envelope.
SealedRequest_forge(r, how, signer, recipient) ==
    LET proper == Some(Continuation_to_envelope(
                           with_valid_id(Continuation_new(NullEnvelope),
                                         r.request.id),
                           Some(signer)))
        r1 == IF how = "keylessSender"
              THEN [r EXCEPT !.sender = XIDDocument_keyless(r.sender.xid)]
              ELSE r
    IN  TamperSealed(
            SealedRequest_seal(r1, ForgedSenderContinuation(how, proper),
                               Some(signer), Some(recipient)).v,
            how, encryption_key(recipient)[1], OtherKey(signer))

\* A response put together the same way
SealedResponse_forge(r, how, signer, recipient) ==
    LET proper == Some(Continuation_to_envelope(
                           Continuation_new(Str("s2")), Some(signer)))
        r1 == IF how = "keylessSender"
              THEN [r EXCEPT !.sender = XIDDocument_keyless(r.sender.xid)]
              ELSE r
    IN  TamperSealed(
            SealedResponse_seal(r1, ForgedSenderContinuation(how, proper),
                                Some(signer), Some(recipient)).v,
            how, encryption_key(recipient)[1], OtherKey(signer))

\* An event put together the same way
SealedEvent_forge(e, how, signer, recipient) ==
    LET proper == Some(Continuation_to_envelope(
                           Continuation_new(Str("s1")), Some(signer)))
        e1 == IF how = "keylessSender"
              THEN [e EXCEPT !.sender = XIDDocument_keyless(e.sender.xid)]
              ELSE e
    IN  TamperSealed(
            SealedEvent_seal(e1, ForgedSenderContinuation(how, proper),
                             Some(signer), {recipient}).v,
            how, encryption_key(recipient)[1], OtherKey(signer))

\* The client holds a continuation that nobody encrypted.
IssueCleartextPrior ==
    /\ phase = "start" /\ prior = None
    /\ prior' = Some([cont |-> Continuation_new(Str("s1")),
                      env |-> CleartextContinuation])
    /\ UNCHANGED <<phase, req, reqOut, reqIn, resp, respOut, respIn>>
    /\ UNCHANGED contVars
    /\ UNCHANGED eventVars

SendForgedRequest ==
    /\ phase = "build"
    /\ \E how \in Forgeries :
          reqOut' = Some([valid_until |-> None, signer |-> Some(ClientKey),
                          recipient |-> Some(ServerDoc), stripped |-> FALSE,
                          forged |-> how,
                          res |-> Ok(SealedRequest_forge(
                                         req[1], how, ClientKey, ServerDoc))])
    /\ phase' = "sent"
    /\ UNCHANGED <<prior, req, reqIn, resp, respOut, respIn>>
    /\ UNCHANGED contVars
    /\ UNCHANGED eventVars

SendForgedResponse ==
    /\ phase = "reply"
    /\ \E how \in Forgeries :
          respOut' = Some([valid_until |-> None, signer |-> Some(ServerKey),
                           recipient |-> Some(ClientDoc), forged |-> how,
                           res |-> Ok(SealedResponse_forge(
                                          resp[1], how, ServerKey, ClientDoc))])
    /\ phase' = "replied"
    /\ UNCHANGED <<prior, req, reqOut, reqIn, resp, respIn>>
    /\ UNCHANGED contVars
    /\ UNCHANGED eventVars

SendForgedEvent ==
    /\ ev # None /\ evOut = None
    /\ \E how \in Forgeries :
          evOut' = Some([valid_until |-> None, signer |-> Some(ClientKey),
                         recipients |-> {ServerDoc}, forged |-> how,
                         res |-> Ok(SealedEvent_forge(
                                        ev[1], how, ClientKey, ServerDoc))])
    /\ UNCHANGED <<ev, evIn>>
    /\ UNCHANGED <<contVars, sealedVars>>

(* ---------------------------- specifications ----------------------- *)
\* The request leg: every way of sending and of parsing a request.
ReqNext ==
    \/ IssuePrior(ServerStates)
    \/ NewRequest({ClientDoc})
    \/ ReqWithState
    \/ ReqWithOptionalState
    \/ ReqWithPeerContinuation
    \/ ReqWithOptionalPeerContinuation
    \/ SendRequest(Opt({ClientKey}), Opt({ServerDoc}))
    \/ SendStrippedRequest
    \/ ServerParse(Opt(Ids), Opt(Times), Keys)

ReqSpec == Init /\ [][ReqNext]_vars

\* The round trip: the client signs its request and encrypts it to the server,
\* the server parses it with its own key, answers with a response it signs and
\* encrypts to the client, and the client parses the response.  Or the client
\* sends an event.
Next ==
    \/ IssuePrior({Str("s2")})
    \/ NewRequest({ClientDoc})
    \/ ReqWithState
    \/ ReqWithOptionalState
    \/ ReqWithPeerContinuation
    \/ ReqWithOptionalPeerContinuation
    \/ SendRequest({Some(ClientKey)}, {Some(ServerDoc)})
    \/ ServerParse({None}, Opt({1}), {ServerKey})
    \/ NewSuccess({ServerDoc})
    \/ NewFailure({ServerDoc})
    \/ NewEarlyFailure
    \/ RespWithState
    \/ RespWithOptionalState
    \/ RespWithPeerContinuation
    \/ SendResponse(Opt({MaxTime}), {Some(ServerKey)}, {Some(ClientDoc)})
    \/ ClientParse(Opt(Ids), Opt(Times), {ClientKey, ServerKey})
    \/ NewEvent({ClientDoc})
    \/ EvWithState
    \/ EvWithOptionalState
    \/ EvWithPeerContinuation
    \/ EvWithOptionalPeerContinuation
    \/ SendEvent(EventRecipients)
    \/ ParseEvent(Opt(Ids), Opt(Times), Keys)

Spec == Init /\ [][Next]_vars

\* An event: composed by the client, sent to any set of recipients, parsed by
\* any key holder.
EventNext ==
    \/ IssuePrior(ServerStates)
    \/ NewEvent({ClientDoc})
    \/ EvWithState
    \/ EvWithOptionalState
    \/ EvWithPeerContinuation
    \/ EvWithOptionalPeerContinuation
    \/ SendEvent(EventRecipients)
    \/ ParseEvent(Opt(Ids), Opt(Times), Keys)

EventSpec == Init /\ [][EventNext]_vars

\* Misuse: identities without keys, a continuation that was never encrypted,
\* messages that do not come out of to_envelope or were modified after they
\* were signed, and a reader holding any key.
KeylessClient == XIDDocument_keyless(ClientKey)
KeylessServer == XIDDocument_keyless(ServerKey)

\* the documents a client, and a server, may present
ClientDocs == {KeylessClient, ClientDoc}
ServerDocs == {KeylessServer, ServerDoc}
\* the documents an event is sent to
MisuseEventRecipients == {ClientDoc, KeylessServer, ServerDoc}
\* the key a client, and a server, may sign with
ClientSigners == Opt({ClientKey})
ServerSigners == Opt({ServerKey})
\* the recipients a request, and a response, may be encrypted to
RequestRecipients == Opt(ServerDocs)
ResponseRecipients == Opt(ClientDocs)

AdvNext ==
    \/ IssueCleartextPrior
    \/ NewRequest(ClientDocs)
    \/ ReqWithPeerContinuation
    \/ SendRequest(ClientSigners, RequestRecipients)
    \/ SendStrippedRequest
    \/ SendForgedRequest
    \/ ServerParse({None}, {None}, Keys)
    \/ NewSuccess(ServerDocs)
    \/ NewFailure(ServerDocs)
    \/ RespWithState
    \/ RespWithPeerContinuation
    \/ SendResponse({None}, ServerSigners, ResponseRecipients)
    \/ SendForgedResponse
    \/ ClientParse({None}, {None}, Keys)
    \/ NewEvent(ClientDocs)
    \/ EvWithState
    \/ EvWithPeerContinuation
    \/ SendEvent(MisuseEventRecipients)
    \/ SendForgedEvent
    \/ ParseEvent({None}, {None}, Keys)

AdvSpec == Init /\ [][AdvNext]_vars

\* ---------------------------------------------------------------------------
\* Repeated parsing: the reader calls the parse operation again on an
\* envelope it has parsed before
\* ---------------------------------------------------------------------------

\* Variant of the repeated request parse that remembers what it accepted and
\* refuses it the next time.
ServerParseAgain_OneTime(ids, nows, keys) ==
    /\ phase \in {"parsed", "reparsed"}
    /\ \E id \in ids, now \in nows, key \in keys :
          reqIn' = Some([id |-> id, now |-> now, key |-> key,
                         res |-> IF reqIn[1].res.ok
                                 THEN Err("ContinuationExpired")
                                 ELSE SealedRequest_try_from_envelope(
                                          reqOut[1].res.v, id, now, key)])
    /\ phase' = "reparsed"
    /\ UNCHANGED <<prior, req, reqOut, resp, respOut, respIn>>
    /\ UNCHANGED contVars
    /\ UNCHANGED eventVars

\* SealedRequest::try_from_envelope, called again on the envelope of the
\* request
ServerParseAgain(ids, nows, keys) ==
    /\ phase \in {"parsed", "reparsed"}
    /\ \E id \in ids, now \in nows, key \in keys :
          reqIn' = Some([id |-> id, now |-> now, key |-> key,
                         res |-> SealedRequest_try_from_envelope(
                                     reqOut[1].res.v, id, now, key)])
    /\ phase' = "reparsed"
    /\ UNCHANGED <<prior, req, reqOut, resp, respOut, respIn>>
    /\ UNCHANGED contVars
    /\ UNCHANGED eventVars

\* SealedResponse::try_from_encrypted_envelope, called again on the envelope
\* of the response
ClientParseAgain(ids, nows, keys) ==
    /\ phase \in {"done", "redone"}
    /\ \E id \in ids, now \in nows, key \in keys :
          respIn' = Some([id |-> id, now |-> now, key |-> key,
                          res |-> SealedResponse_try_from_encrypted_envelope(
                                      respOut[1].res.v, id, now, key)])
    /\ phase' = "redone"
    /\ UNCHANGED <<prior, req, reqOut, reqIn, resp, respOut>>
    /\ UNCHANGED contVars
    /\ UNCHANGED eventVars

ReplayNext ==
    \/ IssuePrior({Str("s2")})
    \/ NewRequest({ClientDoc})
    \/ ReqWithPeerContinuation
    \/ SendRequest({Some(ClientKey)}, {Some(ServerDoc)})
    \/ ServerParse({None}, Opt({1}), {ServerKey})
    \/ ServerParseAgain(Opt(Ids), Opt(Times), {ServerKey})
    \/ NewSuccess({ServerDoc})
    \/ RespWithPeerContinuation
    \/ SendResponse({None}, {Some(ServerKey)}, {Some(ClientDoc)})
    \/ ClientParse(Opt(Ids), Opt(Times), {ClientKey})
    \/ ClientParseAgain(Opt(Ids), Opt(Times), {ClientKey})

ReplaySpec == Init /\ [][ReplayNext]_vars

\* ---------------------------------------------------------------------------
\* Building: the builders of the three message kinds, with the exchange
\* reduced to what gives the server a request to answer
\* ---------------------------------------------------------------------------

BuildNext ==
    \/ IssuePrior({Str("s2")})
    \/ NewRequest({ClientDoc})
    \/ ReqWithState
    \/ ReqWithOptionalState
    \/ ReqWithPeerContinuation
    \/ ReqWithOptionalPeerContinuation
    \/ SendRequest({Some(ClientKey)}, {Some(ServerDoc)})
    \/ ServerParse({None}, {None}, {ServerKey})
    \/ NewSuccess({ServerDoc})
    \/ NewFailure({ServerDoc})
    \/ RespWithState
    \/ RespWithOptionalState
    \/ RespWithPeerContinuation
    \/ NewEvent({ClientDoc})
    \/ EvWithState
    \/ EvWithOptionalState
    \/ EvWithPeerContinuation
    \/ EvWithOptionalPeerContinuation

BuildSpec == Init /\ [][BuildNext]_vars

(* ---------------------------- claims: Continuation --------------------- *)

\* C1: cleartext round trip.  A continuation serialised with no recipient and
\* parsed with no key, no date and an expected id that is absent or equal to
\* its valid_id is returned equal in all three fields.
C1_CleartextRoundTrip ==
    (/\ contRes # None
     /\ contEnv[1].sender = None
     /\ contRes[1].recipient = None
     /\ contRes[1].now = None
     /\ contRes[1].id \in {None, cont[1].valid_id})
    => contRes[1].res = Ok(cont[1])

C1_Witness ==
    /\ contRes # None
    /\ contEnv[1].sender = None
    /\ contRes[1].recipient = None
    /\ contRes[1].now = None
    /\ cont[1].valid_id # None
    /\ cont[1].valid_until # None
    /\ contRes[1].id = cont[1].valid_id
    /\ contRes[1].res = Ok(cont[1])

\* C2 as stated: an encrypted continuation parsed with its own key and id
\* round-trips for every now <= valid_until, the bound included.
C2_Original ==
    (/\ contRes # None
     /\ contEnv[1].sender # None
     /\ contRes[1].recipient = contEnv[1].sender
     /\ contRes[1].id = cont[1].valid_id
     /\ contRes[1].now # None
     /\ cont[1].valid_until # None
     /\ contRes[1].now[1] <= cont[1].valid_until[1])
    => contRes[1].res = Ok(cont[1])

\* C2 (amended): an encrypted continuation parsed with its own key and id
\* round-trips for every now strictly before valid_until (and when now or
\* valid_until is absent); at now = valid_until the parse fails with
\* ContinuationExpired.
C2_EncryptedRoundTrip ==
    (/\ contRes # None
     /\ contEnv[1].sender # None
     /\ contRes[1].recipient = contEnv[1].sender
     /\ contRes[1].id = cont[1].valid_id)
    => /\ (\/ contRes[1].now = None
           \/ cont[1].valid_until = None
           \/ contRes[1].now[1] < cont[1].valid_until[1])
          => contRes[1].res = Ok(cont[1])
       /\ (/\ contRes[1].now # None
           /\ cont[1].valid_until = contRes[1].now)
          => contRes[1].res = Err("ContinuationExpired")

C2_Witness ==
    /\ contRes # None
    /\ contEnv[1].sender # None
    /\ contRes[1].recipient = contEnv[1].sender
    /\ contRes[1].id = cont[1].valid_id
    /\ cont[1].valid_id # None
    /\ contRes[1].now # None
    /\ cont[1].valid_until # None
    /\ contRes[1].now[1] < cont[1].valid_until[1]
    /\ contRes[1].res = Ok(cont[1])

\* C3: expiry monotonicity.  When a parse of a continuation with valid_until
\* succeeds at time t, the same parse succeeds at every t' <= t and fails with
\* ContinuationExpired at every t'' > valid_until; a parse rejected as expired
\* at some time is rejected as expired at every later time.
C3_ExpiryMonotonic ==
    /\ (/\ contRes # None
        /\ contRes[1].res.ok
        /\ cont[1].valid_until # None)
       => /\ \A t \in Times :
                (contRes[1].now # None /\ t <= contRes[1].now[1])
                => Continuation_try_from_envelope(
                       contEnv[1].env, contRes[1].id, Some(t),
                       contRes[1].recipient).ok
          /\ \A t \in Times :
                t > cont[1].valid_until[1]
                => Continuation_try_from_envelope(
                       contEnv[1].env, contRes[1].id, Some(t),
                       contRes[1].recipient) = Err("ContinuationExpired")
    /\ (/\ contRes # None
        /\ contRes[1].res = Err("ContinuationExpired"))
       => \A t \in Times :
             t >= contRes[1].now[1]
             => Continuation_try_from_envelope(
                    contEnv[1].env, contRes[1].id, Some(t),
                    contRes[1].recipient) = Err("ContinuationExpired")

C3_Witness ==
    /\ contRes # None
    /\ contRes[1].res.ok
    /\ contEnv[1].sender # None
    /\ contRes[1].now = Some(1)
    /\ cont[1].valid_until = Some(2)

\* C4: id binding.  For a continuation built with valid_id = X whose
\* decryption succeeds and whose date check passes, parsing with an expected
\* id Y # X fails with ContinuationIdInvalid, and parsing with no expected id
\* succeeds.
C4_IdBinding ==
    (/\ contRes # None
     /\ cont[1].valid_id # None
     /\ contRes[1].recipient = contEnv[1].sender
     /\ is_valid_date(cont[1], contRes[1].now))
    => /\ (contRes[1].id # None /\ contRes[1].id # cont[1].valid_id)
          => contRes[1].res = Err("ContinuationIdInvalid")
       /\ contRes[1].id = None => contRes[1].res = Ok(cont[1])

C4_Witness ==
    /\ contRes # None
    /\ cont[1].valid_id = Some(1)
    /\ contEnv[1].sender # None
    /\ contRes[1].recipient = contEnv[1].sender
    /\ contRes[1].now # None
    /\ contRes[1].id = Some(2)
    /\ contRes[1].res = Err("ContinuationIdInvalid")

\* C5: is_valid_date(now) is true exactly when now is absent, or valid_until
\* is absent, or valid_until > now; a decryptable continuation is rejected as
\* ContinuationExpired exactly when valid_until <= now.
C5_ValidDate ==
    /\ contChk # None
       => (contChk[1].date
           <=> (\/ contChk[1].now = None
                \/ cont[1].valid_until = None
                \/ cont[1].valid_until[1] > contChk[1].now[1]))
    /\ (contRes # None /\ contRes[1].recipient = contEnv[1].sender)
       => (contRes[1].res = Err("ContinuationExpired")
           <=> (/\ contRes[1].now # None
                /\ cont[1].valid_until # None
                /\ cont[1].valid_until[1] <= contRes[1].now[1]))

C5_Witness ==
    /\ contChk # None
    /\ contChk[1].now # None
    /\ contChk[1].now = cont[1].valid_until
    /\ ~contChk[1].date

\* C6: is_valid_id(expected) is true exactly when expected is absent, or
\* valid_id is absent, or valid_id = expected; a continuation with neither
\* valid_id nor valid_until is valid for every now and every expected id.
C6_ValidId ==
    contChk # None
    => /\ contChk[1].idok
          <=> (\/ contChk[1].id = None
               \/ cont[1].valid_id = None
               \/ cont[1].valid_id = contChk[1].id)
       /\ (cont[1].valid_id = None /\ cont[1].valid_until = None)
          => contChk[1].both

C6_Witness ==
    /\ contChk # None
    /\ cont[1].valid_id = None
    /\ cont[1].valid_until = None
    /\ contChk[1].now # None
    /\ contChk[1].id # None
    /\ contChk[1].both

(* ---------------------------- claims: sealed messages ------------------ *)

\* C7: every envelope produced by SealedRequest::to_envelope carries, under
\* the signature and the encryption, a senderContinuation assertion whose
\* object is encrypted to the sender's own encryption key and holds the
\* request's state (the null envelope when there is none), valid_id = the
\* request's id and valid_until = the valid_until argument.
C7_RequestContinuationAlways ==
    (reqOut # None /\ ~reqOut[1].stripped /\ reqOut[1].res.ok)
    => LET e0 == reqOut[1].res.v
           e1 == IF reqOut[1].recipient # None
                 THEN decrypt_to_recipient(
                          e0, encryption_key(reqOut[1].recipient[1])[1]).v
                 ELSE e0
           e2 == IF reqOut[1].signer # None THEN unwrap_envelope(e1).v ELSE e1
           sc == optional_object_for_predicate(e2, "senderContinuation")
       IN  /\ sc.ok
           /\ sc.v # None
           /\ is_encrypted(subject(sc.v[1]))
           /\ assertions(sc.v[1]) =
                 {Assertion("hasRecipient",
                            SealedMessage(encryption_key(req[1].sender)[1]))}
           /\ Continuation_try_from_envelope(
                  sc.v[1], None, None, encryption_key(req[1].sender))
              = Ok([state |-> IF req[1].state # None
                              THEN req[1].state[1] ELSE NullEnvelope,
                    valid_id |-> Some(req[1].request.id),
                    valid_until |-> reqOut[1].valid_until])

C7_Witness ==
    /\ reqOut # None
    /\ ~reqOut[1].stripped
    /\ reqOut[1].res.ok
    /\ req[1].state = None
    /\ reqOut[1].valid_until # None
    /\ reqOut[1].signer # None
    /\ reqOut[1].recipient # None

\* C8 as stated: every request envelope that to_envelope signs and encrypts
\* is parsed successfully with the recipient's private key, and the same
\* request without senderContinuation fails with MissingPeerContinuation.
C8_Original ==
    (/\ reqIn # None
     /\ reqOut[1].signer = Some(ClientKey)
     /\ reqOut[1].recipient = Some(ServerDoc)
     /\ reqIn[1].key = ServerKey)
    => IF reqOut[1].stripped
       THEN reqIn[1].res = Err("MissingPeerContinuation")
       ELSE reqIn[1].res.ok

\* C8 (amended): a request envelope that to_envelope signs with the sender's
\* key and encrypts to the recipient is parsed successfully with the
\* recipient's private key when its peer continuation is absent or passes
\* Continuation::try_from_envelope for the supplied expected id and date, and
\* fails with the continuation's error otherwise; the same request without
\* senderContinuation fails with MissingPeerContinuation.
C8_MandatoryContinuation ==
    (/\ reqIn # None
     /\ reqOut[1].signer = Some(ClientKey)
     /\ reqOut[1].recipient = Some(ServerDoc)
     /\ reqIn[1].key = ServerKey)
    => IF reqOut[1].stripped
       THEN reqIn[1].res = Err("MissingPeerContinuation")
       ELSE IF req[1].peer_continuation = None
       THEN reqIn[1].res.ok
       ELSE LET c == Continuation_try_from_envelope(
                         req[1].peer_continuation[1], reqIn[1].id,
                         reqIn[1].now, Some(ServerKey))
            IN  IF c.ok THEN reqIn[1].res.ok ELSE reqIn[1].res = c

C8_Witness ==
    /\ reqIn # None
    /\ reqOut[1].signer = Some(ClientKey)
    /\ reqOut[1].recipient = Some(ServerDoc)
    /\ reqIn[1].key = ServerKey
    /\ reqOut[1].stripped
    /\ req[1].peer_continuation # None
    /\ prior[1].cont.valid_until = Some(0)
    /\ reqIn[1].now = Some(1)
    /\ reqIn[1].res = Err("MissingPeerContinuation")

\* C9 as stated: the response that returns the request's continuation gives
\* the client back state() = S for every state S of the request.
C9_Original ==
    (/\ respIn # None
     /\ req[1].state # None
     /\ reqOut[1].valid_until # None
     /\ reqIn # None
     /\ resp[1].peer_continuation = reqIn[1].res.v.peer_continuation
     /\ respIn[1].key = ClientKey
     /\ respIn[1].id = Some(req[1].request.id)
     /\ respIn[1].now # None
     /\ respIn[1].now[1] < reqOut[1].valid_until[1])
    => /\ respIn[1].res.ok
       /\ respIn[1].res.v.state = req[1].state

\* C9 (amended): when the client sends a signed, encrypted request with state
\* S and valid_until V and the server returns the parsed request's
\* peer_continuation() in a signed, encrypted response, the client's parse
\* with expected_id = the request id and now < V succeeds and returns
\* state() = S when S is not the null envelope, and state() = None when it
\* is; the server's own earlier continuation, returned in the request, is
\* recovered as the parsed request's state().
C9_StateEcho ==
    /\ (/\ respIn # None
        /\ req[1].state # None
        /\ reqOut[1].valid_until # None
        /\ reqIn # None
        /\ resp[1].peer_continuation = reqIn[1].res.v.peer_continuation
        /\ respIn[1].key = ClientKey
        /\ respIn[1].id = Some(req[1].request.id)
        /\ respIn[1].now # None
        /\ respIn[1].now[1] < reqOut[1].valid_until[1])
       => /\ respIn[1].res.ok
          /\ respIn[1].res.v.state =
                IF is_null(req[1].state[1]) THEN None ELSE req[1].state
    /\ (/\ reqIn # None
        /\ reqIn[1].res.ok
        /\ req[1].peer_continuation # None)
       => /\ req[1].peer_continuation = Some(prior[1].env)
          /\ reqIn[1].res.v.state = Some(prior[1].cont.state)

C9_Witness ==
    /\ respIn # None
    /\ req[1].state = Some(Str("s1"))
    /\ req[1].peer_continuation # None
    /\ reqOut[1].valid_until = Some(MaxTime)
    /\ reqIn # None
    /\ resp[1].peer_continuation = reqIn[1].res.v.peer_continuation
    /\ resp[1].state # None
    /\ respIn[1].key = ClientKey
    /\ respIn[1].id = Some(req[1].request.id)
    /\ respIn[1].now = Some(0)
    /\ respIn[1].res.ok
    /\ respIn[1].res.v.state = Some(Str("s1"))
    /\ reqIn[1].res.v.state = Some(Str("s2"))

\* C10 as stated: a response returning the senderContinuation of the request
\* with id X, parsed with an expected id Y # X, fails with
\* ContinuationIdInvalid.
C10_Original ==
    (/\ respIn # None
     /\ reqIn # None
     /\ resp[1].peer_continuation = reqIn[1].res.v.peer_continuation
     /\ respIn[1].key = ClientKey
     /\ respIn[1].id # None
     /\ respIn[1].id # Some(req[1].request.id))
    => respIn[1].res = Err("ContinuationIdInvalid")

\* C10 (amended): a response returning the senderContinuation of the request
\* with id X, parsed with an expected id Y # X, fails and returns no response
\* value: with ContinuationIdInvalid when the continuation has not expired for
\* the supplied now, with ContinuationExpired when it has (valid_until <= now).
C10_ResponseAnswersRequest ==
    (/\ respIn # None
     /\ reqIn # None
     /\ resp[1].peer_continuation = reqIn[1].res.v.peer_continuation
     /\ respIn[1].key = ClientKey
     /\ respIn[1].id # None
     /\ respIn[1].id # Some(req[1].request.id))
    => /\ ~respIn[1].res.ok
       /\ respIn[1].res =
             IF /\ respIn[1].now # None
                /\ reqOut[1].valid_until # None
                /\ reqOut[1].valid_until[1] <= respIn[1].now[1]
             THEN Err("ContinuationExpired")
             ELSE Err("ContinuationIdInvalid")

C10_Witness ==
    /\ respIn # None
    /\ reqIn # None
    /\ resp[1].peer_continuation = reqIn[1].res.v.peer_continuation
    /\ respIn[1].key = ClientKey
    /\ req[1].request.id = 1
    /\ respIn[1].id = Some(2)
    /\ respIn[1].now = Some(0)
    /\ reqOut[1].valid_until = Some(1)
    /\ respIn[1].res = Err("ContinuationIdInvalid")

\* C11: replay after expiry is rejected by the three sealed parse operations.
\* When the outer decryption and the signature verification of a request, a
\* response or an event succeed and the recipientContinuation it carries, a
\* continuation the parsing peer issued, has valid_until <= now for the
\* supplied now, the parse fails with ContinuationExpired.
C11_ReplayAfterExpiry ==
    /\ (/\ reqIn # None
        /\ req[1].peer_continuation # None
        /\ reqIn[1].now # None
        /\ prior[1].cont.valid_until # None
        /\ prior[1].cont.valid_until[1] <= reqIn[1].now[1])
       => reqIn[1].res = Err("ContinuationExpired")
    /\ (/\ respIn # None
        /\ resp[1].peer_continuation # None
        /\ respIn[1].key = ClientKey
        /\ respIn[1].now # None
        /\ reqOut[1].valid_until # None
        /\ reqOut[1].valid_until[1] <= respIn[1].now[1])
       => respIn[1].res = Err("ContinuationExpired")
    /\ (/\ evIn # None
        /\ ev[1].peer_continuation # None
        /\ evOut[1].signer = Some(ClientKey)
        /\ ServerDoc \in evOut[1].recipients
        /\ evIn[1].key = ServerKey
        /\ evIn[1].now # None
        /\ prior[1].cont.valid_until # None
        /\ prior[1].cont.valid_until[1] <= evIn[1].now[1])
       => evIn[1].res = Err("ContinuationExpired")

C11_Witness ==
    /\ evIn # None
    /\ ev[1].peer_continuation # None
    /\ evOut[1].signer = Some(ClientKey)
    /\ evOut[1].recipients = {ServerDoc}
    /\ evIn[1].key = ServerKey
    /\ evIn[1].now = Some(1)
    /\ prior[1].cont.valid_until = Some(1)
    /\ evIn[1].res = Err("ContinuationExpired")

\* C12 as stated: the peer_continuation() of a successfully parsed message,
\* when present, is the envelope its sender passed to with_peer_continuation.
C12_Original ==
    /\ (reqIn # None /\ reqIn[1].res.ok /\ reqIn[1].res.v.peer_continuation # None)
       => reqIn[1].res.v.peer_continuation = req[1].peer_continuation
    /\ (respIn # None /\ respIn[1].res.ok /\ respIn[1].res.v.peer_continuation # None)
       => respIn[1].res.v.peer_continuation = resp[1].peer_continuation
    /\ (evIn # None /\ evIn[1].res.ok /\ evIn[1].res.v.peer_continuation # None)
       => evIn[1].res.v.peer_continuation = ev[1].peer_continuation

\* C12 (amended): the peer_continuation() of a successfully parsed request,
\* response or event is identical to the senderContinuation object of the
\* message, the continuation its sender encrypted to itself in to_envelope
\* (absent when the message has none); the envelope the sender passed to
\* with_peer_continuation is carried unchanged as the recipientContinuation
\* object of the message.
C12_PeerContinuationOpacity ==
    /\ (reqIn # None /\ reqIn[1].res.ok)
       => LET inner == unwrap_envelope(
                           decrypt_to_recipient(reqOut[1].res.v, reqIn[1].key).v).v
          IN  /\ reqIn[1].res.v.peer_continuation =
                    optional_object_for_predicate(inner, "senderContinuation").v
              /\ req[1].peer_continuation =
                    optional_object_for_predicate(inner, "recipientContinuation").v
    /\ (respIn # None /\ respIn[1].res.ok)
       => LET inner == unwrap_envelope(
                           decrypt_to_recipient(respOut[1].res.v, respIn[1].key).v).v
          IN  /\ respIn[1].res.v.peer_continuation =
                    optional_object_for_predicate(inner, "senderContinuation").v
              /\ resp[1].peer_continuation =
                    optional_object_for_predicate(inner, "recipientContinuation").v
    /\ (evIn # None /\ evIn[1].res.ok)
       => LET inner == unwrap_envelope(
                           decrypt_to_recipient(evOut[1].res.v, evIn[1].key).v).v
          IN  /\ evIn[1].res.v.peer_continuation =
                    optional_object_for_predicate(inner, "senderContinuation").v
              /\ ev[1].peer_continuation =
                    optional_object_for_predicate(inner, "recipientContinuation").v

C12_Witness ==
    /\ respIn # None
    /\ respIn[1].res.ok
    /\ prior # None
    /\ reqIn # None
    /\ req[1].peer_continuation = Some(prior[1].env)
    /\ reqIn[1].res.v.peer_continuation # None
    /\ reqIn[1].res.v.peer_continuation # req[1].peer_continuation
    /\ resp[1].peer_continuation = reqIn[1].res.v.peer_continuation
    /\ respIn[1].res.v.peer_continuation # None
    /\ respIn[1].res.v.peer_continuation # resp[1].peer_continuation

\* C13 as stated: a request built without state, whatever else is set on it,
\* parses to a value whose state() is None.
C13_Original ==
    (reqIn # None /\ reqIn[1].res.ok /\ req[1].state = None)
    => reqIn[1].res.v.state = None

\* C13 (amended): the state() of a successfully parsed request does not depend
\* on the request's own state.  It is None for every request built without a
\* peer continuation, with or without with_state, and it is the state of the
\* peer continuation (the null envelope included) for a request built with
\* one.
C13_StateNullSentinel ==
    (reqIn # None /\ reqIn[1].res.ok)
    => IF req[1].peer_continuation = None
       THEN reqIn[1].res.v.state = None
       ELSE reqIn[1].res.v.state = Some(prior[1].cont.state)

C13_Witness ==
    /\ reqIn # None
    /\ reqIn[1].res.ok
    /\ req[1].state = Some(Str("s1"))
    /\ req[1].peer_continuation = None
    /\ reqIn[1].res.v.state = None

\* C14: when the recipientContinuation of a request holds the null envelope
\* as its state, the parsed request reports state() = None, as response
\* parsing does.  The source keeps Some(null envelope): this does not hold.
C14_RequestNullStateUnwrapped ==
    (/\ reqIn # None
     /\ reqIn[1].res.ok
     /\ req[1].peer_continuation # None
     /\ is_null(prior[1].cont.state))
    => reqIn[1].res.v.state = None

\* C15: a request without user state round-trips cleanly.  When a response
\* echoes the senderContinuation of a request built without state, the parsed
\* response reports state() = None; in general a successfully parsed response
\* reports None when the state in its decrypted recipientContinuation is the
\* null envelope (or there is no recipientContinuation) and Some(state)
\* otherwise.
C15_ResponseNullSentinel ==
    (respIn # None /\ respIn[1].res.ok)
    => /\ (/\ reqIn # None
           /\ req[1].state = None
           /\ resp[1].peer_continuation # None)
          => respIn[1].res.v.state = None
       /\ IF resp[1].peer_continuation = None
          THEN respIn[1].res.v.state = None
          ELSE LET c == Continuation_try_from_envelope(
                            resp[1].peer_continuation[1], None, None,
                            Some(respIn[1].key))
               IN  /\ c.ok
                   /\ respIn[1].res.v.state =
                         IF is_null(c.v.state) THEN None ELSE Some(c.v.state)

C15_Witness ==
    /\ respIn # None
    /\ respIn[1].res.ok
    /\ req[1].state = None
    /\ reqOut[1].valid_until # None
    /\ resp[1].peer_continuation # None
    /\ resp[1].state # None
    /\ respIn[1].id = Some(req[1].request.id)
    /\ respIn[1].now # None
    /\ respIn[1].res.v.state = None

\* C16: a failure response never carries state.  with_state, and
\* with_optional_state with a present value, on a response built by
\* new_failure or new_early_failure is rejected (it panics) and produces no
\* response value; every response value with state present is a success
\* response.
C16_FailureCarriesNoState ==
    resp # None
    => /\ resp[1].state # None => resp[1].response.ok
       /\ phase = "panicked" => ~resp[1].response.ok
       /\ ~resp[1].response.ok
          => \A s \in ServerStates :
                /\ SealedResponse_with_state(resp[1], s) = Err("panic")
                /\ SealedResponse_with_optional_state(resp[1], Some(s))
                   = Err("panic")

C16_Witness ==
    /\ resp # None
    /\ phase = "panicked"
    /\ resp[1].response.id = None
    /\ ~resp[1].response.ok
    /\ resp[1].state = None

\* C17: SealedResponse::to_envelope emits a senderContinuation assertion if
\* and only if the response's state is present; with the state absent none is
\* emitted, also when valid_until is supplied.
C17_ResponseContinuationIffState ==
    (respOut # None /\ respOut[1].res.ok)
    => LET inner == unwrap_envelope(
                        decrypt_to_recipient(respOut[1].res.v, ClientKey).v).v
           sc == optional_object_for_predicate(inner, "senderContinuation")
       IN  /\ sc.ok
           /\ (sc.v # None) <=> (resp[1].state # None)

C17_Witness ==
    /\ respOut # None
    /\ respOut[1].res.ok
    /\ resp[1].response.ok
    /\ resp[1].state = None
    /\ respOut[1].valid_until # None
    /\ optional_object_for_predicate(
           unwrap_envelope(
               decrypt_to_recipient(respOut[1].res.v, ClientKey).v).v,
           "senderContinuation") = Ok(None)

\* C18 as stated: SealedResponse::to_envelope emits a sender continuation if
\* and only if the state is present or a valid_until is given.
C18_Original ==
    (respOut # None /\ respOut[1].res.ok)
    => LET inner == unwrap_envelope(
                        decrypt_to_recipient(respOut[1].res.v, ClientKey).v).v
           sc == optional_object_for_predicate(inner, "senderContinuation")
       IN  (sc.v # None)
           <=> (resp[1].state # None \/ respOut[1].valid_until # None)

\* C18 (amended): SealedResponse::to_envelope emits a sender continuation if
\* and only if the state is present.  A valid_until given without state emits
\* nothing; given with a state it becomes the valid_until of the emitted
\* continuation.
C18_ResponseValidUntilAlone ==
    (respOut # None /\ respOut[1].res.ok)
    => LET inner == unwrap_envelope(
                        decrypt_to_recipient(respOut[1].res.v, ClientKey).v).v
           sc == optional_object_for_predicate(inner, "senderContinuation").v
       IN  IF resp[1].state = None
           THEN sc = None
           ELSE /\ sc # None
                /\ LET c == Continuation_try_from_envelope(
                                sc[1], None, None, Some(ServerKey))
                   IN  /\ c.ok
                       /\ c.v.state = resp[1].state[1]
                       /\ c.v.valid_until = respOut[1].valid_until

C18_Witness ==
    /\ respOut # None
    /\ respOut[1].res.ok
    /\ resp[1].state = Some(Str("s2"))
    /\ respOut[1].valid_until = Some(MaxTime)
    /\ resp[1].peer_continuation # None
    /\ optional_object_for_predicate(
           unwrap_envelope(
               decrypt_to_recipient(respOut[1].res.v, ClientKey).v).v,
           "senderContinuation").v # None

\* C19: SealedEvent::to_envelope / to_envelope_for_recipients emits a
\* senderContinuation assertion if and only if the state is present or a
\* valid_until is given.  With neither, the envelope has no senderContinuation;
\* with a valid_until alone the continuation wraps the null envelope; with a
\* state it holds the state and the valid_until given.
C19_EventContinuationIffStateOrUntil ==
    (evOut # None /\ evOut[1].res.ok)
    => LET e0 == evOut[1].res.v
           e1 == IF evOut[1].recipients # {}
                 THEN decrypt_to_recipient(
                          e0,
                          encryption_key(
                              CHOOSE r \in evOut[1].recipients : TRUE)[1]).v
                 ELSE e0
           e2 == IF evOut[1].signer # None THEN unwrap_envelope(e1).v ELSE e1
           sc == optional_object_for_predicate(e2, "senderContinuation")
       IN  /\ sc.ok
           /\ (sc.v # None)
              <=> (ev[1].state # None \/ evOut[1].valid_until # None)
           /\ sc.v # None
              => Continuation_try_from_envelope(
                     sc.v[1], None, None, encryption_key(ev[1].sender))
                 = Ok([state |-> IF ev[1].state # None
                                 THEN ev[1].state[1] ELSE NullEnvelope,
                       valid_id |-> None,
                       valid_until |-> evOut[1].valid_until])

C19_Witness ==
    /\ evOut # None
    /\ evOut[1].res.ok
    /\ ev[1].state = None
    /\ evOut[1].valid_until = Some(1)
    /\ evOut[1].signer = Some(ClientKey)
    /\ evOut[1].recipients = {}
    /\ optional_object_for_predicate(
           unwrap_envelope(evOut[1].res.v).v, "senderContinuation").v # None

\* C20: the sender continuations emitted by SealedResponse::to_envelope and by
\* SealedEvent::to_envelope carry no valid_id, so they pass the id check for
\* every expected id.
C20_NoValidIdInResponseOrEvent ==
    /\ (phase = "replied" /\ respOut[1].res.ok)
       => LET inner == unwrap_envelope(
                           decrypt_to_recipient(respOut[1].res.v, ClientKey).v).v
              sc == optional_object_for_predicate(inner, "senderContinuation").v
          IN  sc # None
              => LET c == Continuation_try_from_envelope(
                              sc[1], None, None, Some(ServerKey))
                 IN  /\ c.ok
                     /\ c.v.valid_id = None
                     /\ \A id \in Ids :
                           /\ is_valid_id(c.v, Some(id))
                           /\ Continuation_try_from_envelope(
                                  sc[1], Some(id), None, Some(ServerKey)).ok
    /\ (evOut # None /\ evOut[1].res.ok)
       => LET e0 == evOut[1].res.v
              e1 == IF evOut[1].recipients # {}
                    THEN decrypt_to_recipient(
                             e0,
                             encryption_key(
                                 CHOOSE r \in evOut[1].recipients : TRUE)[1]).v
                    ELSE e0
              e2 == IF evOut[1].signer # None THEN unwrap_envelope(e1).v ELSE e1
              sc == optional_object_for_predicate(e2, "senderContinuation").v
          IN  sc # None
              => LET c == Continuation_try_from_envelope(
                              sc[1], None, None, Some(ClientKey))
                 IN  /\ c.ok
                     /\ c.v.valid_id = None
                     /\ \A id \in Ids :
                           /\ is_valid_id(c.v, Some(id))
                           /\ Continuation_try_from_envelope(
                                  sc[1], Some(id), None, Some(ClientKey)).ok

C20_Witness ==
    /\ respOut # None
    /\ respOut[1].res.ok
    /\ resp[1].state = Some(Str("s2"))
    /\ respOut[1].valid_until = None
    /\ Continuation_try_from_envelope(
           optional_object_for_predicate(
               unwrap_envelope(
                   decrypt_to_recipient(respOut[1].res.v, ClientKey).v).v,
               "senderContinuation").v[1],
           Some(NumIds), None, Some(ServerKey)).ok

(* ---------------------------- C21 -------------------------------------- *)
\* peer_continuation, when present, is an envelope whose subject is encrypted
PeerContinuationEncrypted(m) ==
    m.peer_continuation # None
        => is_encrypted(subject(m.peer_continuation[1]))

\* C21: in every SealedRequest, SealedResponse and SealedEvent value, built or
\* parsed, peer_continuation when present is an envelope whose subject is
\* encrypted.  The builders store whatever envelope they are given: a request
\* or an event built with a continuation that was never encrypted holds it.
C21_PeerContinuationEncrypted ==
    /\ req # None => PeerContinuationEncrypted(req[1])
    /\ resp # None => PeerContinuationEncrypted(resp[1])
    /\ ev # None => PeerContinuationEncrypted(ev[1])
    /\ (reqIn # None /\ reqIn[1].res.ok) => PeerContinuationEncrypted(reqIn[1].res.v)
    /\ (respIn # None /\ respIn[1].res.ok) => PeerContinuationEncrypted(respIn[1].res.v)
    /\ (evIn # None /\ evIn[1].res.ok) => PeerContinuationEncrypted(evIn[1].res.v)

(* ---------------------------- C22 -------------------------------------- *)
\* the request that was sent reached its recipient, who holds the key it was
\* encrypted to, and names a sender whose key made the signature
RequestReadable ==
    /\ reqIn # None
    /\ reqOut[1].signer # None /\ reqOut[1].recipient = Some(ServerDoc)
    /\ req[1].sender = ClientDoc /\ reqIn[1].key = ServerKey

\* the same for the response
ResponseReadable ==
    /\ respIn # None
    /\ respOut[1].signer # None /\ respOut[1].recipient = Some(ClientDoc)
    /\ resp[1].sender = ServerDoc /\ respIn[1].key = ClientKey

\* the same for the event, read by one of its recipients
EventReadable ==
    /\ evIn # None
    /\ evOut[1].signer # None /\ evOut[1].recipients # {}
    /\ ev[1].sender = ClientDoc
    /\ XIDDocument_from(evIn[1].key) \in evOut[1].recipients

\* C22: a senderContinuation whose subject is not encrypted makes parsing fail
\* with PeerContinuationNotEncrypted for a request, a response and an event;
\* a response and an event without senderContinuation are accepted, with
\* peer_continuation() = None, and a request without it is not.
C22_SenderContinuationOnReceive ==
    /\ (RequestReadable /\ reqOut[1].forged = "cleartextContinuation")
           => reqIn[1].res = Err("PeerContinuationNotEncrypted")
    /\ (ResponseReadable /\ respOut[1].forged = "cleartextContinuation")
           => respIn[1].res = Err("PeerContinuationNotEncrypted")
    /\ (EventReadable /\ evOut[1].forged = "cleartextContinuation")
           => evIn[1].res = Err("PeerContinuationNotEncrypted")
    /\ (RequestReadable /\ reqOut[1].stripped) => ~reqIn[1].res.ok
    /\ (ResponseReadable /\ respOut[1].forged = "none" /\ resp[1].state = None)
           => /\ respIn[1].res.ok
              /\ respIn[1].res.v.peer_continuation = None
    /\ (EventReadable /\ evOut[1].forged = "none" /\ ev[1].state = None
            /\ evOut[1].valid_until = None /\ ev[1].peer_continuation = None)
           => /\ evIn[1].res.ok
              /\ evIn[1].res.v.peer_continuation = None

\* an event whose senderContinuation is in the clear was read by its recipient
\* and refused
C22_Witness ==
    /\ EventReadable /\ evOut[1].forged = "cleartextContinuation"
    /\ evIn[1].res = Err("PeerContinuationNotEncrypted")

(* ---------------------------- C23 -------------------------------------- *)
\* The envelope is ciphertext carrying nothing but hasRecipient assertions,
\* and what the holder of private key k finds under it is the content signed
\* by signer.
EncryptedOverSigned(envelope, signer, k) ==
    /\ is_encrypted(subject(envelope))
    /\ \A a \in assertions(envelope) : a.pred = "hasRecipient"
    /\ decrypt_to_recipient(envelope, k).ok
    /\ verify(decrypt_to_recipient(envelope, k).v, signer).ok

\* C23: for a request, a response and an event, when both a signer and a
\* recipient are supplied the signature is applied first and the encryption
\* last, over the signed envelope; and every parse decrypts before it verifies:
\* an envelope that the supplied private key does not decrypt is rejected with
\* the decryption error, whatever its signature and continuations are.
C23_SignThenEncrypt ==
    /\ (reqOut # None /\ reqOut[1].forged = "none" /\ reqOut[1].res.ok
            /\ reqOut[1].signer # None /\ reqOut[1].recipient # None)
           => EncryptedOverSigned(reqOut[1].res.v, reqOut[1].signer[1],
                                  encryption_key(reqOut[1].recipient[1])[1])
    /\ (respOut # None /\ respOut[1].forged = "none" /\ respOut[1].res.ok
            /\ respOut[1].signer # None /\ respOut[1].recipient # None)
           => EncryptedOverSigned(respOut[1].res.v, respOut[1].signer[1],
                                  encryption_key(respOut[1].recipient[1])[1])
    /\ (evOut # None /\ evOut[1].forged = "none" /\ evOut[1].res.ok
            /\ evOut[1].signer # None)
           => \A r \in evOut[1].recipients :
                  EncryptedOverSigned(evOut[1].res.v, evOut[1].signer[1],
                                      encryption_key(r)[1])
    /\ (reqIn # None /\ ~decrypt_to_recipient(reqOut[1].res.v, reqIn[1].key).ok)
           => reqIn[1].res = decrypt_to_recipient(reqOut[1].res.v, reqIn[1].key)
    /\ (respIn # None /\ ~decrypt_to_recipient(respOut[1].res.v, respIn[1].key).ok)
           => respIn[1].res = decrypt_to_recipient(respOut[1].res.v, respIn[1].key)
    /\ (evIn # None /\ ~decrypt_to_recipient(evOut[1].res.v, evIn[1].key).ok)
           => evIn[1].res = decrypt_to_recipient(evOut[1].res.v, evIn[1].key)

\* a request signed by the client and encrypted to the server, whose
\* senderContinuation is in the clear, was read with the client's key: the
\* answer is the decryption error, not PeerContinuationNotEncrypted
C23_Witness ==
    /\ reqIn # None /\ req[1].sender = ClientDoc
    /\ reqOut[1].forged = "cleartextContinuation"
    /\ reqIn[1].key = ClientKey
    /\ reqIn[1].res = Err("Envelope(UnknownRecipient)")
    /\ SealedRequest_try_from_envelope(reqOut[1].res.v, None, None, ServerKey)
           = Err("PeerContinuationNotEncrypted")

(* ---------------------------- C24 -------------------------------------- *)
\* what to_envelope answers when it fails for want of a key
MissingKeyErrors ==
    {Err("RecipientMissingEncryptionKey"), Err("SenderMissingEncryptionKey")}

\* the sender document inside a message is one without keys: the message was
\* made from it, or it was put in place of the sender's
KeylessEmbedded(sender, forged) ==
    \/ forged = "keylessSender"
    \/ /\ encryption_key(sender) = None
       /\ forged \notin {"sender", "resigned"}

C25_SenderKeyOnlyForContinuation ==
    /\ (reqOut # None /\ reqOut[1].forged = "none" /\ ~reqOut[1].stripped)
           => (reqOut[1].res = Err("SenderMissingEncryptionKey")
                   <=> encryption_key(req[1].sender) = None)
    /\ (respOut # None /\ respOut[1].forged = "none")
           => (respOut[1].res = Err("SenderMissingEncryptionKey")
                   <=> (encryption_key(resp[1].sender) = None
                            /\ resp[1].state # None))
    /\ (evOut # None /\ evOut[1].forged = "none")
           => (evOut[1].res = Err("SenderMissingEncryptionKey")
                   <=> (encryption_key(ev[1].sender) = None
                            /\ (ev[1].state # None
                                    \/ evOut[1].valid_until # None)))

Outsiders(envelope) ==
    {k \in Keys : Assertion("hasRecipient", SealedMessage(k))
                      \notin assertions(envelope)}

\* a failed parse is an error and nothing else: no payload, no state, no
\* continuation
RevealsNothing(result) == result = Err("Envelope(UnknownRecipient)")

\* C27: a sealed message or a continuation encrypted to R cannot be parsed
\* with the private key of any R' # R: whatever id and date the reader
\* expects, the parse fails and returns nothing but the error.
C27_EncryptionAudience ==
    /\ (reqOut # None /\ reqOut[1].res.ok /\ reqOut[1].recipient # None)
           => /\ \A k \in Outsiders(reqOut[1].res.v), id \in Opt(Ids),
                    now \in Opt(Times) :
                      RevealsNothing(SealedRequest_try_from_envelope(
                                         reqOut[1].res.v, id, now, k))
              /\ (reqIn # None /\ reqIn[1].key \in Outsiders(reqOut[1].res.v))
                     => RevealsNothing(reqIn[1].res)
    /\ (respOut # None /\ respOut[1].res.ok /\ respOut[1].recipient # None)
           => /\ \A k \in Outsiders(respOut[1].res.v), id \in Opt(Ids),
                    now \in Opt(Times) :
                      RevealsNothing(SealedResponse_try_from_encrypted_envelope(
                                         respOut[1].res.v, id, now, k))
              /\ (respIn # None /\ respIn[1].key \in Outsiders(respOut[1].res.v))
                     => RevealsNothing(respIn[1].res)
    /\ (evOut # None /\ evOut[1].res.ok /\ evOut[1].recipients # {})
           => /\ \A k \in Outsiders(evOut[1].res.v), id \in Opt(Ids),
                    now \in Opt(Times) :
                      RevealsNothing(SealedEvent_try_from_envelope(
                                         evOut[1].res.v, id, now, k))
              /\ (evIn # None /\ evIn[1].key \in Outsiders(evOut[1].res.v))
                     => RevealsNothing(evIn[1].res)
    /\ \A m \in {i \in {reqIn, respIn, evIn} : i # None} :
           (m[1].res.ok /\ m[1].res.v.peer_continuation # None)
               => LET c == m[1].res.v.peer_continuation[1]
                  IN  \A k \in Outsiders(c), id \in Opt(Ids), now \in Opt(Times) :
                          RevealsNothing(Continuation_try_from_envelope(
                                             c, id, now, Some(k)))

\* the server's response to the client was read with the server's own key and
\* refused, and the client's continuation that the server received does not
\* open with the server's key
C27_Witness ==
    /\ respIn # None /\ respOut[1].forged = "none"
    /\ respOut[1].recipient = Some(ClientDoc) /\ respOut[1].signer # None
    /\ respIn[1].key = ServerKey
    /\ respIn[1].res = Err("Envelope(UnknownRecipient)")
    /\ SealedResponse_try_from_encrypted_envelope(
           respOut[1].res.v, None, None, ClientKey).ok
    /\ reqIn[1].res.v.peer_continuation # None
    /\ ServerKey \in Outsiders(reqIn[1].res.v.peer_continuation[1])

(* ---------------------------- C28 -------------------------------------- *)
\* C28 as stated: any modification of a signed envelope made after signing
\* (payload, sender, either continuation assertion, the signature) makes the
\* parse fail.  A message whose sender document and signature were both
\* replaced by another identity's verifies against the document it carries.
C28_Original ==
    /\ (reqIn # None /\ reqOut[1].forged \in Tamperings) => ~reqIn[1].res.ok
    /\ (respIn # None /\ respOut[1].forged \in Tamperings) => ~respIn[1].res.ok
    /\ (evIn # None /\ evOut[1].forged \in Tamperings) => ~evIn[1].res.ok

\* the parse of a message modified under its signature by the reader the
\* message is encrypted to
RejectsTampered(forged, sender, readable, result, signer) ==
    /\ forged \in SingleTamperings
           => /\ ~result.ok
              /\ (readable /\ verification_key(sender) # None)
                     => result = Err("Envelope(UnverifiedSignature)")
    /\ (forged = "resigned" /\ result.ok)
           => /\ result.v.sender = XIDDocument_from(OtherKey(signer))
              /\ result.v.sender # sender

\* C28: a modification of a signed envelope that leaves the sender document or
\* the signature as it was (the payload, the sender document, either
\* continuation assertion, or the signature alone) makes signature
\* verification, and so the parse, fail.  When the sender document and the
\* signature are both replaced, the parse reports the other identity as the
\* sender, never the original one.
C28_SignatureIntegrity ==
    /\ reqIn # None
           => RejectsTampered(reqOut[1].forged, req[1].sender,
                              reqIn[1].key = ServerKey, reqIn[1].res, ClientKey)
    /\ respIn # None
           => RejectsTampered(respOut[1].forged, resp[1].sender,
                              respIn[1].key = ClientKey, respIn[1].res, ServerKey)
    /\ evIn # None
           => RejectsTampered(evOut[1].forged, ev[1].sender,
                              evIn[1].key = ServerKey, evIn[1].res, ClientKey)

\* the server's response, its payload modified after the server signed it,
\* was read by the client and failed verification
C28_Witness ==
    /\ respIn # None /\ respOut[1].forged = "payload"
    /\ resp[1].sender = ServerDoc /\ respIn[1].key = ClientKey
    /\ respIn[1].res = Err("Envelope(UnverifiedSignature)")

(* ---------------------------- C29 -------------------------------------- *)
\* the errors of the crate
ErrorNames ==
    {"SenderMissingEncryptionKey", "RecipientMissingEncryptionKey",
     "SenderMissingVerificationKey", "ContinuationExpired",
     "ContinuationIdInvalid", "PeerContinuationNotEncrypted",
     "MissingPeerContinuation", "XID",
     "Envelope(NotWrapped)", "Envelope(NonexistentPredicate)",
     "Envelope(AmbiguousPredicate)", "Envelope(InvalidFormat)",
     "Envelope(NotEncrypted)", "Envelope(UnknownRecipient)",
     "Envelope(UnverifiedSignature)"}

\* a value with all of its fields, or one error and no value
AtomicResult(result, fields) ==
    IF result.ok
    THEN DOMAIN result = {"ok", "v"} /\ DOMAIN result.v = fields
    ELSE DOMAIN result = {"ok", "err"} /\ result.err \in ErrorNames

\* The recipientContinuation of a message whose reader got through decryption
\* and verification is refused: the parse returns that refusal and nothing
\* else.
FailsWithContinuation(continuation, parsed) ==
    continuation # None
    => LET c == Continuation_try_from_envelope(
                    continuation[1], parsed.id, parsed.now, Some(parsed.key))
       IN  /\ AtomicResult(c, {"state", "valid_id", "valid_until"})
           /\ ~c.ok => parsed.res = c

\* the parse of a message whose signature was replaced after signing
ForgedSignature(envelope, recipient_key, signer) ==
    TamperSealed(envelope, "signature", recipient_key, OtherKey(signer))

\* C29: every parse returns a fully constructed value or exactly one error.
\* On an expired continuation, a mismatched id or a failed signature the
\* result is the error, and no message value.
C29_ParsingAtomic ==
    /\ reqIn # None
           => /\ AtomicResult(reqIn[1].res,
                              {"request", "sender", "state", "peer_continuation"})
              /\ FailsWithContinuation(req[1].peer_continuation, reqIn[1])
              /\ phase = "parsed" =>
                 SealedRequest_try_from_envelope(
                     ForgedSignature(reqOut[1].res.v, ServerKey, ClientKey),
                     reqIn[1].id, reqIn[1].now, ServerKey)
                   = Err("Envelope(UnverifiedSignature)")
    /\ respIn # None
           => /\ AtomicResult(respIn[1].res,
                              {"response", "sender", "state", "peer_continuation"})
              /\ respIn[1].key = ClientKey
                     => FailsWithContinuation(resp[1].peer_continuation, respIn[1])
              /\ SealedResponse_try_from_encrypted_envelope(
                     ForgedSignature(respOut[1].res.v, ClientKey, ServerKey),
                     respIn[1].id, respIn[1].now, ClientKey)
                   = Err("Envelope(UnverifiedSignature)")
    /\ evIn # None
           => /\ AtomicResult(evIn[1].res,
                              {"event", "sender", "state", "peer_continuation"})
              /\ (evOut[1].signer # None
                      /\ XIDDocument_from(evIn[1].key) \in evOut[1].recipients)
                     => /\ FailsWithContinuation(ev[1].peer_continuation, evIn[1])
                        /\ SealedEvent_try_from_envelope(
                               ForgedSignature(evOut[1].res.v, evIn[1].key,
                                               evOut[1].signer[1]),
                               evIn[1].id, evIn[1].now, evIn[1].key)
                             = Err("Envelope(UnverifiedSignature)")

\* the client read a response that returns its continuation, after the date
\* the continuation was valid until: it got ContinuationExpired and no response
C29_Witness ==
    /\ respIn # None /\ respIn[1].key = ClientKey
    /\ resp[1].peer_continuation # None
    /\ respIn[1].now # None /\ reqOut[1].valid_until # None
    /\ reqOut[1].valid_until[1] <= respIn[1].now[1]
    /\ respIn[1].res = Err("ContinuationExpired")

(* ---------------------------- C30 -------------------------------------- *)
\* C30: no construction, serialization or parse operation aborts: every
\* operation returns a value or an error.  with_state (and with_optional_state
\* given a state) on a failure response aborts.
C30_NoOperationPanics == phase # "panicked"

(* ---------------------------- C31 -------------------------------------- *)
\* the objects an optional field contributes under its predicate
OptionalObjects(o) == IF o = None THEN {} ELSE {o[1]}

\* the envelope of continuation c before encryption: the wrapped state as the
\* subject, an id assertion iff valid_id is set, a validUntil assertion iff
\* valid_until is set, and nothing else
ContinuationCleartext(envelope, c) ==
    /\ subject(envelope) = Wrapped(c.state)
    /\ objects_for_predicate(envelope, "id")
           = OptionalObjects(OptARIDEnvelope(c.valid_id))
    /\ objects_for_predicate(envelope, "validUntil")
           = OptionalObjects(OptDateEnvelope(c.valid_until))
    /\ \A a \in assertions(envelope) : a.pred \in {"id", "validUntil"}

\* C31: Continuation::to_envelope produces an envelope whose subject is the
\* wrapped state, with an id assertion iff valid_id is set and a validUntil
\* assertion iff valid_until is set; with a recipient key the whole envelope,
\* assertions included, is encrypted with exactly one hasRecipient, and
\* without one it is left in cleartext.
C31_ContinuationEnvelopeShape ==
    contEnv # None
    => LET e == contEnv[1].env
           sender == contEnv[1].sender
       IN  IF sender # None
           THEN /\ is_encrypted(subject(e))
                /\ assertions(e)
                       = {Assertion("hasRecipient", SealedMessage(sender[1]))}
                /\ subject(e).content.t = "wrapped"
                /\ ContinuationCleartext(subject(e).content.inner, cont[1])
           ELSE /\ ~is_encrypted(subject(e))
                /\ ContinuationCleartext(e, cont[1])

\* a continuation with an id and a date was encrypted, one with neither was
\* left in the clear: the two are witnessed by the first
C31_Witness ==
    /\ contEnv # None /\ contEnv[1].sender # None
    /\ cont[1].valid_id # None /\ cont[1].valid_until # None
    /\ is_encrypted(subject(contEnv[1].env))
    /\ Cardinality(assertions(contEnv[1].env)) = 1

(* ---------------------------- C32 -------------------------------------- *)
\* what a sender may have hidden in its own continuation: a state alone, or
\* another state bound to id 1 or to id 2 and valid until
\* a date that has passed whenever the reader gives one
HiddenContinuations ==
    {Continuation_new(NullEnvelope)} \cup
    {[state |-> Str("x"), valid_id |-> Some(i), valid_until |-> Some(0)] :
        i \in {1, 2}}

\* the dates a reader parses with: none, the first and the last
ReaderDates == {None, Some(0), Some(MaxTime)}

\* the result of a parse without the opaque peer continuation
Visible(result) ==
    IF result.ok THEN [result.v EXCEPT !.peer_continuation = None] ELSE result

\* C32: the holder never inspects the peer's continuation.  Messages that
\* differ only in what is hidden inside the encrypted senderContinuation (its
\* state, valid_id, valid_until, expired or bound to another id) parse to the
\* same outcome, payload and state, for every expected id and date: these are
\* never applied to the senderContinuation.
C32_PeerContinuationNotInspected ==
    /\ (phase = "parsed" /\ reqOut[1].forged = "none" /\ ~reqOut[1].stripped
            /\ reqOut[1].signer # None /\ reqOut[1].recipient # None)
       => LET results(id, now) ==
                  {Visible(SealedRequest_try_from_envelope(
                               SealedRequest_seal(
                                   req[1],
                                   Some(Continuation_to_envelope(
                                            c, encryption_key(req[1].sender))),
                                   reqOut[1].signer, reqOut[1].recipient).v,
                               id, now, reqIn[1].key)) :
                       c \in HiddenContinuations}
          IN  /\ \A id \in Opt(Ids), now \in ReaderDates :
                     Cardinality(results(id, now)) = 1
              /\ Visible(reqIn[1].res) \in results(reqIn[1].id, reqIn[1].now)
    /\ (respIn # None /\ respOut[1].forged = "none"
            /\ respOut[1].signer # None /\ respOut[1].recipient # None
            /\ encryption_key(resp[1].sender) # None)
       => LET results(id, now) ==
                  {Visible(SealedResponse_try_from_encrypted_envelope(
                               SealedResponse_seal(
                                   resp[1],
                                   Some(Continuation_to_envelope(
                                            c, encryption_key(resp[1].sender))),
                                   respOut[1].signer, respOut[1].recipient).v,
                               id, now, respIn[1].key)) :
                       c \in HiddenContinuations}
          IN  /\ \A id \in Opt(Ids), now \in ReaderDates :
                     Cardinality(results(id, now)) = 1
              /\ resp[1].state # None
                     => Visible(respIn[1].res)
                            \in results(respIn[1].id, respIn[1].now)
    /\ (evIn # None /\ evOut[1].forged = "none"
            /\ evOut[1].signer # None /\ evOut[1].recipients # {})
       => LET results(id, now) ==
                  {Visible(SealedEvent_try_from_envelope(
                               SealedEvent_seal(
                                   ev[1],
                                   Some(Continuation_to_envelope(
                                            c, encryption_key(ev[1].sender))),
                                   evOut[1].signer, evOut[1].recipients).v,
                               id, now, evIn[1].key)) :
                       c \in HiddenContinuations}
          IN  /\ \A id \in Opt(Ids), now \in ReaderDates :
                     Cardinality(results(id, now)) = 1
              /\ (ev[1].state # None \/ evOut[1].valid_until # None)
                     => Visible(evIn[1].res)
                            \in results(evIn[1].id, evIn[1].now)

\* the server accepted a request whose senderContinuation had expired at the
\* date the server parsed with, and is bound to an id the server did not expect
C32_Witness ==
    /\ reqIn # None /\ reqOut[1].forged = "none" /\ ~reqOut[1].stripped
    /\ reqIn[1].res.ok
    /\ reqOut[1].valid_until = Some(0)
    /\ \E id \in Ids :
           /\ id # req[1].request.id
           /\ SealedRequest_try_from_envelope(
                  reqOut[1].res.v, Some(id), Some(MaxTime), reqIn[1].key).ok
           /\ ~Continuation_try_from_envelope(
                   reqIn[1].res.v.peer_continuation[1], Some(id), Some(MaxTime),
                   encryption_key(req[1].sender)).ok

\* ---------------------------------------------------------------------------
\* C33: order of the two validity checks of Continuation::try_from_envelope
\* ---------------------------------------------------------------------------

\* The two validity errors of a continuation.
ValidityErrors == {"ContinuationExpired", "ContinuationIdInvalid"}

\* The continuation envelope opens with this recipient key: decryption (when a
\* key is supplied) and the extraction of subject and fields all succeed.
ContinuationOpens(sender, recipient) == sender = recipient

\* C33: Continuation::try_from_envelope checks the date before the id.  When
\* the envelope opens and the continuation is expired for the supplied now,
\* the result is ContinuationExpired whether or not the id matches; it is
\* ContinuationIdInvalid only when the date is valid and the id differs; and
\* when decryption or extraction fails the result is that failure, never one
\* of the two validity errors.
C33_DateBeforeId ==
    (cont # None /\ contEnv # None /\ contRes # None) =>
        LET c == cont[1]
            r == contRes[1]
        IN  IF ContinuationOpens(contEnv[1].sender, r.recipient)
            THEN /\ ~is_valid_date(c, r.now) => r.res = Err("ContinuationExpired")
                 /\ (is_valid_date(c, r.now) /\ ~is_valid_id(c, r.id)) =>
                        r.res = Err("ContinuationIdInvalid")
                 /\ (is_valid_date(c, r.now) /\ is_valid_id(c, r.id)) =>
                        r.res = Ok(c)
            ELSE /\ ~r.res.ok
                 /\ r.res.err \notin ValidityErrors

\* An encrypted continuation that is both expired and bound to another id is
\* opened with the right key and reported as expired.
C33_Witness ==
    /\ cont # None /\ contEnv # None /\ contRes # None
    /\ contEnv[1].sender # None
    /\ contRes[1].recipient = contEnv[1].sender
    /\ ~is_valid_date(cont[1], contRes[1].now)
    /\ ~is_valid_id(cont[1], contRes[1].id)
    /\ contRes[1].res = Err("ContinuationExpired")

\* ---------------------------------------------------------------------------
\* C34: SealedRequest::try_from_envelope reports the first failing step
\* ---------------------------------------------------------------------------

\* For each step of SealedRequest::try_from_envelope, in the order of the
\* code, the errors the step raises for the message that was sent (o: how it
\* was sealed, r: the request it was built from) and the arguments of the
\* parse (i); the empty set when the step passes.
RequestStepErrors(o, r, i) ==
    LET continuation ==
            IF r.peer_continuation = None THEN Ok(NullEnvelope)
            ELSE Continuation_try_from_envelope(
                     r.peer_continuation[1], i.id, i.now, Some(i.key))
    IN  << \* outer decryption
           IF o.recipient = None THEN {"Envelope(NotEncrypted)"}
           ELSE IF encryption_key(o.recipient[1]) # Some(i.key)
           THEN {"Envelope(UnknownRecipient)"}
           ELSE {},
           \* sender extraction
           IF o.signer = None THEN {"Envelope(NotWrapped)"} ELSE {},
           \* verification key of the sender
           IF KeylessEmbedded(r.sender, o.forged)
           THEN {"SenderMissingVerificationKey"}
           ELSE {},
           \* signature verification
           IF o.forged \in SingleTamperings
           THEN {"Envelope(UnverifiedSignature)"}
           ELSE {},
           \* senderContinuation: presence, then ciphertext
           IF o.stripped THEN {"MissingPeerContinuation"}
           ELSE IF o.forged = "cleartextContinuation"
           THEN {"PeerContinuationNotEncrypted"}
           ELSE {},
           \* recipientContinuation: decryption and validation
           IF continuation.ok THEN {} ELSE {continuation.err} >>

\* The errors of the first failing step; the empty set when no step fails.
FirstFailure(steps) ==
    LET failing == {n \in 1..Len(steps) : steps[n] # {}}
    IN  IF failing = {} THEN {}
        ELSE steps[CHOOSE n \in failing : \A m \in failing : n <= m]

\* A recipientContinuation for the server that is expired at MaxTime.
ExpiredContinuation ==
    Continuation_to_envelope(
        with_valid_until(Continuation_new(Str("x")), 0), Some(ServerKey))

\* The sender continuation a request of this id carries.
ProperSenderContinuation(r) ==
    Continuation_to_envelope(
        with_valid_id(Continuation_new(NullEnvelope), r.request.id),
        Some(ClientKey))

\* The request r around an expired recipientContinuation, sealed with or
\* without its senderContinuation and parsed by the server at MaxTime.
ParseExpired(r, sender_continuation) ==
    SealedRequest_try_from_envelope(
        SealedRequest_seal(
            SealedRequest_with_peer_continuation(r, ExpiredContinuation),
            sender_continuation, Some(ClientKey), Some(ServerDoc)).v,
        None, Some(MaxTime), ServerKey)

\* C34: SealedRequest::try_from_envelope reports the error of the first
\* failing step in the order outer decryption, sender extraction,
\* SenderMissingVerificationKey, signature verification, senderContinuation
\* (MissingPeerContinuation, then PeerContinuationNotEncrypted),
\* recipientContinuation, request reconstruction, and succeeds only when no
\* step fails.  In particular a request without senderContinuation around an
\* expired recipientContinuation fails with MissingPeerContinuation, although
\* the same request with its senderContinuation fails with
\* ContinuationExpired.
C34_FirstFailingStep ==
    /\ (req # None /\ reqOut # None /\ reqIn # None) =>
           LET first == FirstFailure(
                            RequestStepErrors(reqOut[1], req[1], reqIn[1]))
               res == reqIn[1].res
           IN  IF first = {} THEN res.ok
               ELSE ~res.ok /\ res.err \in first
    /\ (req # None /\ verification_key(req[1].sender) # None) =>
           /\ ParseExpired(req[1], None) = Err("MissingPeerContinuation")
           /\ ParseExpired(req[1], Some(ProperSenderContinuation(req[1])))
                  = Err("ContinuationExpired")

\* A request that fails two steps at once was parsed: its signature does not
\* verify and its recipientContinuation is not encrypted to the server, and
\* the signature error is the one reported.
C34_Witness ==
    /\ req # None /\ reqOut # None /\ reqIn # None
    /\ LET steps == RequestStepErrors(reqOut[1], req[1], reqIn[1])
       IN  /\ steps[1] = {} /\ steps[2] = {} /\ steps[3] = {}
           /\ steps[4] # {} /\ steps[6] # {}
    /\ reqIn[1].res = Err("Envelope(UnverifiedSignature)")

\* ---------------------------------------------------------------------------
\* C35: only signed and encrypted envelopes are parsed
\* ---------------------------------------------------------------------------

\* What a parse answers for an envelope sealed with this signer for these
\* recipient keys when it is given the private key k: the envelope-level
\* error of an envelope that is not encrypted, not encrypted to k, or not
\* signed; no error when it is both signed and encrypted to k.
SealingError(signer, recipient_keys, k) ==
    IF recipient_keys = {} THEN Some("Envelope(NotEncrypted)")
    ELSE IF Some(k) \notin recipient_keys THEN Some("Envelope(UnknownRecipient)")
    ELSE IF signer = None THEN Some("Envelope(NotWrapped)")
    ELSE None

\* The parse result is the sealing error if there is one.
RejectsUnsealed(signer, recipient_keys, parsed) ==
    LET e == SealingError(signer, recipient_keys, parsed.key)
    IN  e # None => parsed.res = Err(e[1])

\* the encryption keys of an optional recipient document
RecipientKeys(recipient) ==
    IF recipient = None THEN {} ELSE {encryption_key(recipient[1])}

\* C35: the parse operations of the three message kinds accept only an
\* envelope that is both signed and encrypted to the supplied private key.  An
\* envelope that to_envelope produced without a signer or without a recipient
\* (an event for an empty recipient list included), or for another recipient,
\* is rejected with an envelope-level error and yields no message value.
C35_SignedAndEncryptedOnly ==
    /\ (reqOut # None /\ reqIn # None) =>
           RejectsUnsealed(reqOut[1].signer, RecipientKeys(reqOut[1].recipient),
                           reqIn[1])
    /\ (respOut # None /\ respIn # None) =>
           RejectsUnsealed(respOut[1].signer,
                           RecipientKeys(respOut[1].recipient), respIn[1])
    /\ (evOut # None /\ evIn # None) =>
           RejectsUnsealed(evOut[1].signer,
                           {encryption_key(d) : d \in evOut[1].recipients},
                           evIn[1])

\* A signed event broadcast to no recipient was parsed and rejected as not
\* encrypted.
C35_Witness ==
    /\ evOut # None /\ evIn # None
    /\ evOut[1].forged = "none"
    /\ evOut[1].signer # None /\ evOut[1].recipients = {}
    /\ evIn[1].res = Err("Envelope(NotEncrypted)")

\* ---------------------------------------------------------------------------
\* C36: the signature is verified against the embedded sender document
\* ---------------------------------------------------------------------------

\* the sender document the message carries when it reaches the reader
EmbeddedSender(sender, forged, signer) ==
    IF forged \in {"sender", "resigned"} THEN XIDDocument_from(OtherKey(signer))
    ELSE IF forged = "keylessSender" THEN XIDDocument_keyless(sender.xid)
    ELSE sender

\* the key that made the signature the message carries when it reaches the
\* reader
SigningKey(forged, signer) ==
    IF forged \in {"signature", "resigned"} THEN OtherKey(signer) ELSE signer

\* modifications that leave the signature over another content
ContentTamperings == {"payload", "senderContinuation", "recipientContinuation"}

\* the errors of the verification step
VerificationErrors ==
    {"SenderMissingVerificationKey", "Envelope(UnverifiedSignature)"}

\* The parse of a signed message by a reader it is encrypted to: it verifies
\* the signature with the verification key of the embedded document, and
\* returns that document as the sender.
VerifiedAgainstEmbedded(sender, forged, signer, parsed) ==
    LET embedded == EmbeddedSender(sender, forged, signer)
        named == verification_key(embedded)
        signed_by == SigningKey(forged, signer)
    IN  /\ parsed.res.ok =>
               /\ parsed.res.v.sender = embedded
               /\ named = Some(signed_by)
        /\ (named = Some(signed_by) /\ forged \notin ContentTamperings) =>
               (parsed.res.ok \/ parsed.res.err \notin VerificationErrors)
        /\ (named # None /\ named # Some(signed_by)) =>
               parsed.res = Err("Envelope(UnverifiedSignature)")
        /\ named = None => parsed.res = Err("SenderMissingVerificationKey")

\* C36: on receive the signature is verified against the verification key of
\* the sender document carried in the message itself, and nothing else is
\* consulted: a message signed by the key its own sender assertion names
\* passes verification whoever built it, a message signed by another key
\* fails it, and the sender() of a parsed message is exactly the embedded
\* document.
C36_VerifiedAgainstEmbeddedSender ==
    /\ (reqIn # None /\ reqOut[1].signer # None
        /\ SealingError(reqOut[1].signer, RecipientKeys(reqOut[1].recipient),
                        reqIn[1].key) = None) =>
           VerifiedAgainstEmbedded(req[1].sender, reqOut[1].forged,
                                   reqOut[1].signer[1], reqIn[1])
    /\ (respIn # None /\ respOut[1].signer # None
        /\ SealingError(respOut[1].signer, RecipientKeys(respOut[1].recipient),
                        respIn[1].key) = None) =>
           VerifiedAgainstEmbedded(resp[1].sender, respOut[1].forged,
                                   respOut[1].signer[1], respIn[1])
    /\ (evIn # None /\ evOut[1].signer # None
        /\ SealingError(evOut[1].signer,
                        {encryption_key(d) : d \in evOut[1].recipients},
                        evIn[1].key) = None) =>
           VerifiedAgainstEmbedded(ev[1].sender, evOut[1].forged,
                                   evOut[1].signer[1], evIn[1])

\* A response whose sender document and signature were both replaced was
\* parsed by the client: it is accepted, and its sender() is the replacing
\* document, not the server's.
C36_Witness ==
    /\ respIn # None /\ respOut[1].forged = "resigned"
    /\ respIn[1].res.ok
    /\ respIn[1].res.v.sender = XIDDocument_from(OtherKey(ServerKey))
    /\ respIn[1].res.v.sender # resp[1].sender

\* ---------------------------------------------------------------------------
\* C37: expected_id and now reach only the recipientContinuation
\* ---------------------------------------------------------------------------

\* the message reaches the reader without a recipientContinuation assertion
NoRecipientContinuation(peer_continuation, forged) ==
    peer_continuation = None /\ forged # "recipientContinuation"

\* the results of parsing the envelope with every expected_id and every now
RequestParses(envelope, key) ==
    {SealedRequest_try_from_envelope(envelope, id, now, key) :
        id \in Opt(Ids), now \in Opt(Times)}

\* the same for a response
ResponseParses(envelope, key) ==
    {SealedResponse_try_from_encrypted_envelope(envelope, id, now, key) :
        id \in Opt(Ids), now \in Opt(Times)}

\* the same for an event
EventParses(envelope, key) ==
    {SealedEvent_try_from_envelope(envelope, id, now, key) :
        id \in Opt(Ids), now \in Opt(Times)}

\* every expected_id and every now give the recorded result, and a message
\* that is accepted has no state
SameForEveryIdAndDate(results, recorded) ==
    /\ results = {recorded}
    /\ recorded.ok => recorded.v.state = None

\* C37: expected_id and now are applied only to the recipientContinuation.
\* The parse of a message without recipientContinuation assertion gives the
\* same result for every expected_id and every now; when the message is
\* accepted its state() is None, and it is accepted also for an expected_id
\* that differs from the id of the request, response or event itself.
C37_IdAndDateOnlyForContinuation ==
    /\ (phase = "parsed"
        /\ NoRecipientContinuation(req[1].peer_continuation, reqOut[1].forged))
           => SameForEveryIdAndDate(
                  RequestParses(reqOut[1].res.v, reqIn[1].key), reqIn[1].res)
    /\ (respIn # None
        /\ NoRecipientContinuation(resp[1].peer_continuation,
                                   respOut[1].forged))
           => SameForEveryIdAndDate(
                  ResponseParses(respOut[1].res.v, respIn[1].key),
                  respIn[1].res)
    /\ (evIn # None
        /\ NoRecipientContinuation(ev[1].peer_continuation, evOut[1].forged))
           => SameForEveryIdAndDate(
                  EventParses(evOut[1].res.v, evIn[1].key), evIn[1].res)

\* An event without recipientContinuation was accepted, and it is accepted
\* too when the reader expects another id than the event's own, at the
\* latest date.
C37_Witness ==
    /\ evIn # None /\ evIn[1].res.ok
    /\ NoRecipientContinuation(ev[1].peer_continuation, evOut[1].forged)
    /\ evIn[1].res.v.state = None
    /\ \E id \in Ids :
          /\ id # ev[1].event.id
          /\ SealedEvent_try_from_envelope(
                 evOut[1].res.v, Some(id), Some(MaxTime), evIn[1].key).ok

\* ---------------------------------------------------------------------------
\* C38: the recipientContinuation is opened with the reader's own key
\* ---------------------------------------------------------------------------

\* continuations that are not encrypted to the key k: the cleartext one and
\* one encrypted to each other key
MisdirectedContinuations(k) ==
    {CleartextContinuation} \cup {ForeignContinuation(j) : j \in Keys \ {k}}

\* The parses, by the reader k, of the request r sealed to k by its sender
\* around each of these recipientContinuations.
RequestParsesAround(r, continuations, k) ==
    {SealedRequest_try_from_envelope(
         SealedRequest_seal(
             SealedRequest_with_peer_continuation(r, c),
             Some(ProperSenderContinuation(r)),
             verification_key(r.sender), Some(XIDDocument_from(k))).v,
         None, None, k) : c \in continuations}

\* the same for a response
ResponseParsesAround(r, continuations, k) ==
    {SealedResponse_try_from_encrypted_envelope(
         SealedResponse_seal(
             SealedResponse_with_peer_continuation(r, Some(c)), None,
             verification_key(r.sender), Some(XIDDocument_from(k))).v,
         None, None, k) : c \in continuations}

\* the same for an event
EventParsesAround(e, continuations, k) ==
    {SealedEvent_try_from_envelope(
         SealedEvent_seal(
             SealedEvent_with_peer_continuation(e, c), None,
             verification_key(e.sender), {XIDDocument_from(k)}).v,
         None, None, k) : c \in continuations}

\* the errors of decrypting a continuation that is not encrypted to the key
MisdirectedErrors == {"Envelope(NotEncrypted)", "Envelope(UnknownRecipient)"}

\* every parse around a misdirected continuation fails on its decryption, and
\* the parse around a continuation encrypted to the reader's key succeeds
OpenedWithReaderKey(misdirected, own) ==
    /\ \A result \in misdirected :
           ~result.ok /\ result.err \in MisdirectedErrors
    /\ \A result \in own : result.ok /\ result.v.state = Some(Str("x"))

\* C38: the recipientContinuation is decrypted with the private key that
\* opens the outer envelope.  A request, a response or an event that carries
\* a recipientContinuation in cleartext or encrypted to another key fails to
\* parse, and yields no message, although the envelope itself is signed and
\* encrypted to the reader; with a recipientContinuation encrypted to the
\* reader's key the same message parses.  Each message is sealed around these
\* continuations while it is being built, and the recorded parses are held to
\* the same rule.
C38_ContinuationOpenedWithReaderKey ==
    /\ (phase = "build" /\ verification_key(req[1].sender) # None) =>
           \A k \in Keys :
               OpenedWithReaderKey(
                   RequestParsesAround(req[1], MisdirectedContinuations(k), k),
                   RequestParsesAround(req[1], {ForeignContinuation(k)}, k))
    /\ (phase = "reply" /\ verification_key(resp[1].sender) # None) =>
           \A k \in Keys :
               OpenedWithReaderKey(
                   ResponseParsesAround(resp[1], MisdirectedContinuations(k), k),
                   ResponseParsesAround(resp[1], {ForeignContinuation(k)}, k))
    /\ (ev # None /\ evOut = None /\ verification_key(ev[1].sender) # None) =>
           \A k \in Keys :
               OpenedWithReaderKey(
                   EventParsesAround(ev[1], MisdirectedContinuations(k), k),
                   EventParsesAround(ev[1], {ForeignContinuation(k)}, k))
    /\ (reqIn # None /\ req[1].peer_continuation # None
        /\ ~decrypt_to_recipient(req[1].peer_continuation[1], reqIn[1].key).ok)
           => ~reqIn[1].res.ok
    /\ (respIn # None /\ resp[1].peer_continuation # None
        /\ ~decrypt_to_recipient(resp[1].peer_continuation[1],
                                 respIn[1].key).ok)
           => ~respIn[1].res.ok
    /\ (evIn # None /\ ev[1].peer_continuation # None
        /\ ~decrypt_to_recipient(ev[1].peer_continuation[1], evIn[1].key).ok)
           => ~evIn[1].res.ok

\* The server parsed a signed request encrypted to it whose
\* recipientContinuation is in cleartext, and the parse failed on the
\* decryption of the continuation.
C38_Witness ==
    /\ reqIn # None /\ reqOut[1].forged = "none" /\ ~reqOut[1].stripped
    /\ reqOut[1].signer # None /\ reqOut[1].recipient = Some(ServerDoc)
    /\ reqIn[1].key = ServerKey
    /\ req[1].peer_continuation = Some(CleartextContinuation)
    /\ reqIn[1].res = Err("Envelope(NotEncrypted)")

\* ---------------------------------------------------------------------------
\* C39: parsing is stateless and repeatable
\* ---------------------------------------------------------------------------

\* the arguments of two recorded parses are the same
SameArguments(a, b) == a.id = b.id /\ a.now = b.now /\ a.key = b.key

\* the continuation the client put in its request, which the response
\* returns to it
RequestContinuation ==
    with_optional_valid_until(
        with_valid_id(Continuation_new(NullEnvelope), req[1].request.id),
        reqOut[1].valid_until)

ClearsOnly(before, after, field) ==
    /\ DOMAIN after = DOMAIN before
    /\ after[field] = None
    /\ \A f \in DOMAIN before \ {field} : after[f] = before[f]

\* the continuation, and the continuation bound to each id
BoundContinuations(c) == {c} \cup {with_valid_id(c, i) : i \in Ids}

\* C40: in the builders of the sealed messages the optional variants
\* overwrite.  with_optional_state(None) and
\* with_optional_peer_continuation(None), and with_peer_continuation(None) of
\* a response, clear the state or the peer continuation set before and leave
\* every other field as it was; with_optional_state(None) clears the state of
\* a failure response too.  Continuation::with_optional_valid_id(None) and
\* with_optional_valid_until(None) leave the continuation as it was.
C40_OptionalBuildersOverwrite ==
    /\ req # None =>
           /\ ClearsOnly(req[1],
                         SealedRequest_with_optional_state(req[1], None),
                         "state")
           /\ ClearsOnly(req[1],
                         SealedRequest_with_optional_peer_continuation(
                             req[1], None),
                         "peer_continuation")
    /\ resp # None =>
           /\ SealedResponse_with_optional_state(resp[1], None).ok
           /\ ClearsOnly(resp[1],
                         SealedResponse_with_optional_state(resp[1], None).v,
                         "state")
           /\ ClearsOnly(resp[1],
                         SealedResponse_with_peer_continuation(resp[1], None),
                         "peer_continuation")
    /\ ev # None =>
           /\ ClearsOnly(ev[1],
                         SealedEvent_with_optional_state(ev[1], None),
                         "state")
           /\ ClearsOnly(ev[1],
                         SealedEvent_with_optional_peer_continuation(
                             ev[1], None),
                         "peer_continuation")
    /\ prior # None =>
           \A c \in BoundContinuations(prior[1].cont) :
               /\ with_optional_valid_id(c, None) = c
               /\ with_optional_valid_until(c, None) = c

\* An event has both a state and a peer continuation set, and the
\* continuation it was given has an expiry date: clearing either changes the
\* event, and not setting the date keeps it.
C40_Witness ==
    /\ ev # None /\ ev[1].state # None /\ ev[1].peer_continuation # None
    /\ SealedEvent_with_optional_state(ev[1], None) # ev[1]
    /\ SealedEvent_with_optional_peer_continuation(ev[1], None) # ev[1]
    /\ prior # None /\ prior[1].cont.valid_until # None
    /\ with_optional_valid_until(prior[1].cont, None).valid_until # None

====
